---- MODULE Spec2Model ----
(***************************************************************************)
(* A model of github-repo-report-bot: the scoring, classifying, summary    *)
(* and context functions of src/src/analyzer.py, the scorer client of      *)
(* src/src/qwen_client.py, the issue listing of src/src/github_client.py   *)
(* and the period partition, PR retrieval and analysis steps of main() in  *)
(* src/src/main.py.                                                        *)
(*                                                                         *)
(* Numbers.  Python floats are modelled in fixed point: a total score is   *)
(* held in hundredths of a point while it is accumulated and in tenths of  *)
(* a point once round(total, 1) has been applied.  The binary rounding     *)
(* error of the float products and sums is a nondeterministic error of at  *)
(* most FloatErr hundredths (the real error is below 1e-12).               *)
(* Strings.  The three ratings are "excellent" (优秀), "good" (良好) and   *)
(* "fair" (一般).                                                          *)
(***************************************************************************)
EXTENDS Integers, Sequences, FiniteSets, TLC

VARIABLES
    fn,          \* PureSpec: the scoring function under application
    fn_in,       \* PureSpec: its arguments
    fn_out,      \* PureSpec: its result, <<>> until it has been applied
    pc,                   \* main(): the next step
    period,               \* main(): analysis.period, "today" | "day" | "week"
    period_start,         \* main(): start of the period window
    period_end,           \* main(): end of the period window
    src_issues,           \* the list list_issues returned (kept for reference)
    src_prs,              \* the list list_pull_requests returned
    disc_nodes,           \* the discussion nodes the GraphQL source served
    src_discussions,      \* the list list_discussions returned
    raw_issues,           \* main(): raw_issues
    created_issues,       \* main(): created_issues
    updated_issues,       \* main(): updated_issues
    raw_prs,              \* main(): raw_prs
    raw_discussions,      \* main(): raw_discussions
    created_discussions,  \* main(): created_discussions
    updated_discussions,  \* main(): updated_discussions
    detailed_prs,         \* main(): detailed_prs
    qwen_results,         \* main(): qwen_results, number -> scorer result
    issues_analysis,      \* main(): issues_analysis
    prs_analysis,         \* main(): prs_analysis
    discussions_analysis, \* main(): discussions_analysis
    api_key,                  \* QwenClient.api_key is set
    max_requests_per_minute,  \* QwenClient.max_requests_per_minute
    _request_timestamps,      \* QwenClient._request_timestamps
    clock,                    \* the value time.time() returns
    cpc,                      \* the position of the client call in progress
    method,                   \* the method of the call in progress
    now,                      \* _throttle: the local now
    sleeps,                   \* time.sleep calls made by the call in progress
    call_records,             \* timestamps appended by the call in progress
    call_requests,            \* network requests made by the call in progress
    recorded,                 \* every timestamp appended so far, in order
    calls,                    \* the calls made so far
    result,                   \* the outcome of the last call
    source_items,             \* the records the /issues endpoint holds, in order
    max_count,                \* list_issues: max_count
    params,                   \* list_issues: params, per_page and page
    all_issues,               \* list_issues: all_issues
    requests_made,            \* list_issues: the pages requested so far
    lpc,                      \* list_issues: the position of the call
    listed                    \* list_issues: the list returned

pure_vars == <<fn, fn_in, fn_out>>

issue_vars == <<src_issues, raw_issues, created_issues, updated_issues>>

pr_vars == <<src_prs, raw_prs, detailed_prs, qwen_results>>

disc_vars == <<disc_nodes, src_discussions, raw_discussions, created_discussions, updated_discussions>>

result_vars == <<issues_analysis, prs_analysis, discussions_analysis>>

period_vars == <<period, period_start, period_end>>

main_vars == <<pc, period_vars, issue_vars, pr_vars, disc_vars, result_vars>>

client_vars == <<api_key, max_requests_per_minute, _request_timestamps, clock, cpc, method, now, sleeps, call_records, call_requests, recorded, calls, result>>

lister_vars == <<source_items, max_count, params, all_issues, requests_made, lpc, listed>>

vars == <<pure_vars, main_vars, client_vars, lister_vars>>

----------------------------------------------------------------------------
(* Bounds of the model *)

FloatErr == 1          \* bound on the accumulated float error, in hundredths
MaxAdditions == 205    \* additions range over 0..MaxAdditions
MaxDeletions == 5      \* deletions range over 0..MaxDeletions
MaxTotal == 1000       \* _rating is applied to 0..MaxTotal tenths of a point

(* Program constants *)

MaxScore == 10         \* the scale of every sub-score
W_type == 5            \* weights["type"] = 0.05, in hundredths
W_size == 5            \* weights["size"] = 0.05
W_code == 15           \* weights["code"] = 0.15
W_test == 15           \* weights["test"] = 0.15
W_doc == 15            \* weights["doc"] = 0.15
W_security == 15       \* weights["security"] = 0.15
W_merge == 15          \* weights["merge"] = 0.15
W_collab == 15         \* weights["collab"] = 0.15
SmallLimit == 50       \* lines < 50 is small
MediumLimit == 200     \* lines <= 200 is medium
ExcellentAbove == 800  \* total_score > 80, in tenths
GoodAbove == 600       \* total_score > 60, in tenths

----------------------------------------------------------------------------
(* analyzer.py: the scoring functions *)

\* round(x, 1) of a value given in hundredths: the nearest tenth, a tie going
\* to the even tenth.
Round1(h) ==
    LET q == h \div 10
        r == h % 10
    IN  IF r < 5 THEN q
        ELSE IF r > 5 THEN q + 1
        ELSE IF q % 2 = 0 THEN q ELSE q + 1

\* A weighted sum that forgets the size term
WeightedSum_NoSize(type_score, size_score, code_quality_score, test_coverage_score, doc_maintain_score, compliance_security_score, merge_history_score, collaboration_score) ==
      type_score * 10 * W_type
    + code_quality_score * 10 * W_code
    + test_coverage_score * 10 * W_test
    + doc_maintain_score * 10 * W_doc
    + compliance_security_score * 10 * W_security
    + merge_history_score * 10 * W_merge
    + collaboration_score * 10 * W_collab

\* The eight "total += score * 10 * weight" statements, exactly, in hundredths.
WeightedSum(type_score, size_score, code_quality_score, test_coverage_score, doc_maintain_score, compliance_security_score, merge_history_score, collaboration_score) ==
      type_score * 10 * W_type
    + size_score * 10 * W_size
    + code_quality_score * 10 * W_code
    + test_coverage_score * 10 * W_test
    + doc_maintain_score * 10 * W_doc
    + compliance_security_score * 10 * W_security
    + merge_history_score * 10 * W_merge
    + collaboration_score * 10 * W_collab

\* _calc_total_score on the scores s (a sequence of the eight arguments in the
\* order of the signature), the float sum being off by err hundredths; the
\* result is in tenths.
_calc_total_score(s, err) ==
    Round1(WeightedSum(s[1], s[2], s[3], s[4], s[5], s[6], s[7], s[8]) + err)

\* Size buckets with "lines < 200" for medium
_size_category_and_score_Strict(additions, deletions) ==
    LET lines == additions + deletions
    IN  IF lines < SmallLimit THEN <<"small", 5>>
        ELSE IF lines < MediumLimit THEN <<"medium", 7>>
        ELSE <<"large", 9>>

_size_category_and_score(additions, deletions) ==
    LET lines == additions + deletions
    IN  IF lines < SmallLimit THEN <<"small", 5>>
        ELSE IF lines <= MediumLimit THEN <<"medium", 7>>
        ELSE <<"large", 9>>

\* Ratings with ">=" at both thresholds
_rating_Inclusive(total_score) ==
    IF total_score >= ExcellentAbove THEN "excellent"
    ELSE IF total_score >= GoodAbove THEN "good"
    ELSE "fair"

\* total_score in tenths of a point
_rating(total_score) ==
    IF total_score > ExcellentAbove THEN "excellent"
    ELSE IF total_score > GoodAbove THEN "good"
    ELSE "fair"

----------------------------------------------------------------------------
(* Records and timestamps                                                  *)
(*                                                                         *)
(* A raw record is a function from field names to values, as a Python dict *)
(* is.  A number field is an integer, 0 or NullInt standing for a field    *)
(* that is absent or null.  A timestamp field is a pair <<format, instant>>: *)
(*   <<"none", 0>>    the field is absent, null or empty                   *)
(*   <<"Z", t>>       an ISO-8601 text ending in Z, as GitHub sends it     *)
(*   <<"offset", t>>  an ISO-8601 text ending in +00:00                    *)
(*   <<"naive", t>>   an ISO-8601 text without offset                      *)
(*   <<"bad", 0>>     a non-empty text that is no ISO-8601 timestamp, such *)
(*                    as "unknown"                                         *)
(* Instants are the integers 0..MaxTime; the window runs from instant 1 to *)
(* instant MaxTime - 1, so that 0 lies before it and MaxTime after it.     *)

MaxRecords == 2        \* the sources serve at most MaxRecords records in a run
MaxTime == 3           \* instants range over 0..MaxTime

NoneTs == <<"none", 0>>
NullInt == 0 - 1

Times == 0..MaxTime
Numbers == 1..MaxRecords

Bad == <<"bad", 0>>
Naive == <<"naive", 0>>
Timestamps == {NoneTs, Bad, Naive} \cup {<<"Z", t>> : t \in Times}

\* dict.get(key, default)
Get(d, key, default) == IF key \in DOMAIN d THEN d[key] ELSE default

\* Python truth value of a timestamp field: None and "" are false
TruthyTs(text) == text[1] # "none"

\* Python truth value of a number field: None and 0 are false
TruthyInt(v) == v # NullInt /\ v # 0

\* The text left as it is
ReplaceZ_Keep(text) == text

\* text.replace("Z", "+00:00")
ReplaceZ(text) == IF text[1] = "Z" THEN <<"offset", text[2]>> ELSE text

\* datetime.fromisoformat(text): a datetime, aware or naive, or ValueError
\* (a trailing Z is rejected before Python 3.11; after ReplaceZ none is left).
fromisoformat(text) ==
    IF text[1] = "offset" THEN [error |-> FALSE, aware |-> TRUE, t |-> text[2]]
    ELSE IF text[1] = "naive" THEN [error |-> FALSE, aware |-> FALSE, t |-> text[2]]
    ELSE [error |-> TRUE, aware |-> FALSE, t |-> 0]

\* A window whose end is included for every period
InWindow_EndIncluded(t, p, ps, pe) == ps <= t /\ t <= pe

\* period_start <= d <= period_end for "today", period_start <= d < period_end
\* otherwise, for an aware datetime at instant t
InWindow(t, p, ps, pe) ==
    IF p = "today" THEN ps <= t /\ t <= pe
    ELSE ps <= t /\ t < pe

\* in_period_updated without the window test
InPeriodUpdated_AnyTime(updated_t, created_t, p, ps, pe) ==
    updated_t # created_t

\* main.py 150/153 and 220/223: in_period_updated
InPeriodUpdated(updated_t, created_t, p, ps, pe) ==
    InWindow(updated_t, p, ps, pe) /\ updated_t # created_t

\* A bucket test that takes a timestamp without offset for a UTC instant
BucketOf_NaiveAsUtc(rec, p, ps, pe) ==
    LET created == Get(rec, "created_at", NoneTs)
        updated == Get(rec, "updated_at", NoneTs)
    IN  IF ~TruthyTs(created) THEN "none"
        ELSE
          LET created_date == fromisoformat(ReplaceZ(created))
              updated_date == IF TruthyTs(updated) THEN fromisoformat(ReplaceZ(updated))
                              ELSE created_date
          IN  IF created_date.error \/ updated_date.error THEN "none"
              ELSE IF InWindow(created_date.t, p, ps, pe) THEN "created"
              ELSE IF InPeriodUpdated(updated_date.t, created_date.t, p, ps, pe)
                   THEN "updated"
              ELSE "none"

\* main.py 139-160 (issues) and 209-230 (discussions): the bucket one record
\* is appended to, "created", "updated" or "none".  Every exception raised in
\* the try block (ValueError of fromisoformat, TypeError of comparing a naive
\* datetime with the aware window bounds) is swallowed by "except: pass".
BucketOf(rec, p, ps, pe) ==
    LET created == Get(rec, "created_at", NoneTs)
        updated == Get(rec, "updated_at", NoneTs)
    IN  IF ~TruthyTs(created) THEN "none"
        ELSE
          LET created_date == fromisoformat(ReplaceZ(created))
              updated_date == IF TruthyTs(updated) THEN fromisoformat(ReplaceZ(updated))
                              ELSE created_date
          IN  IF created_date.error \/ updated_date.error THEN "none"
              ELSE IF ~created_date.aware \/ ~updated_date.aware THEN "none"
              ELSE IF InWindow(created_date.t, p, ps, pe) THEN "created"
              ELSE IF InPeriodUpdated(updated_date.t, created_date.t, p, ps, pe)
                   THEN "updated"
              ELSE "none"

\* The records of a list that go to bucket b, in list order
BucketList(raw, b, p, ps, pe) ==
    SelectSeq(raw, LAMBDA rec : BucketOf(rec, p, ps, pe) = b)

\* "x in list": some element equals x
InList(x, list) == \E i \in 1..Len(list) : list[i] = x

\* A tag that is always true
Tag_AlwaysTrue(rec, value) ==
    [k \in DOMAIN rec \cup {"_created_in_period"} |->
        IF k = "_created_in_period" THEN TRUE ELSE rec[k]]

\* record["_created_in_period"] = value
Tag(rec, value) ==
    [k \in DOMAIN rec \cup {"_created_in_period"} |->
        IF k = "_created_in_period" THEN value ELSE rec[k]]

\* main.py 162-171 and 232-241: the loop over the merged list.  A record whose
\* number is false or already seen is skipped; a kept record is tagged with
\* "record in created".  (The tag is written into the dict that the created
\* list also holds; a record of the updated list is never equal to a record
\* of the created list, tagged or not, because equal records have the same
\* created_at and so go to the same bucket.)
RECURSIVE DedupLoop(_, _, _, _)
DedupLoop(merged, created, seen_numbers, filtered) ==
    IF merged = <<>> THEN filtered
    ELSE
      LET rec == Head(merged)
          num == Get(rec, "number", NullInt)
      IN  IF TruthyInt(num) /\ num \notin seen_numbers
          THEN DedupLoop(Tail(merged), created, seen_numbers \cup {num},
                         Append(filtered, Tag(rec, InList(rec, created))))
          ELSE DedupLoop(Tail(merged), created, seen_numbers, filtered)

\* A merge that keeps every record, seen or not
MergeAndDedup_KeepAll(created, updated) ==
    [i \in 1..(Len(created) + Len(updated)) |->
        Tag((created \o updated)[i], InList((created \o updated)[i], created))]

\* A merge that lists the updated records first
MergeAndDedup_UpdatedFirst(created, updated) ==
    DedupLoop(updated \o created, created, {}, <<>>)

\* A merge that puts each kept record at the front of the filtered list
MergeAndDedup_Prepend(created, updated) ==
    LET kept == DedupLoop(created \o updated, created, {}, <<>>)
    IN  [i \in 1..Len(kept) |-> kept[Len(kept) + 1 - i]]

\* for record in created + updated
MergeAndDedup(created, updated) ==
    DedupLoop(created \o updated, created, {}, <<>>)

----------------------------------------------------------------------------
(* Texts.  A text is a string; only ASCII letters change under lower().     *)

UpperCase == "ABCDEFGHIJKLMNOPQRSTUVWXYZ"
LowerCase == "abcdefghijklmnopqrstuvwxyz"

\* The i-th character of a text, as a text of length 1
CharAt(text, i) == SubSeq(text, i, i)

LowerChar(c) ==
    IF \E i \in 1..Len(UpperCase) : CharAt(UpperCase, i) = c
    THEN CharAt(LowerCase, CHOOSE i \in 1..Len(UpperCase) : CharAt(UpperCase, i) = c)
    ELSE c

\* str.lower()
RECURSIVE Lower(_)
Lower(text) ==
    IF Len(text) = 0 THEN ""
    ELSE IF Len(text) = 1 THEN LowerChar(text)
    ELSE LET half == Len(text) \div 2
         IN  Lower(SubSeq(text, 1, half)) \o Lower(SubSeq(text, half + 1, Len(text)))

\* "word in text": word is a substring of text
Contains(text, word) ==
    \E i \in 1..(Len(text) - Len(word) + 1) : SubSeq(text, i, i + Len(word) - 1) = word

\* sep.join(list)
RECURSIVE Join(_, _)
Join(list, sep) ==
    IF list = <<>> THEN ""
    ELSE IF Len(list) = 1 THEN list[1]
    ELSE list[1] \o sep \o Join(Tail(list), sep)

\* text[:n]
Prefix(text, n) == SubSeq(text, 1, IF Len(text) < n THEN Len(text) ELSE n)

\* text.startswith(word)
StartsWith(text, word) == Len(word) <= Len(text) /\ SubSeq(text, 1, Len(word)) = word

Whitespace == {" ", "\n", "\t"}

\* FailurePrefix stands for the text "调用 Qwen 失败" of qwen_client.py and
\* analyzer.py, NoKeyNotice for "Qwen API key 未配置，未实际调用模型。"
FailurePrefix == "Qwen call failed"
NoKeyNotice == "no api key"

\* text.strip() is empty: the text holds nothing but whitespace
IsBlank(text) == \A i \in 1..Len(text) : CharAt(text, i) \in Whitespace

----------------------------------------------------------------------------
(* analyzer.py: the analysis records.  A record of the model carries the    *)
(* identity fields, the period flag, the summaries and, for a PR, the       *)
(* scores.                                                                  *)

\* A cascade that tests the feature signals before the bug signals
_classify_issue_category_FeatureFirst(title, body, labels) ==
    LET text == Lower(title \o "\n" \o body)
        label_text == Lower(Join(labels, " "))
    IN  IF Contains(label_text, "feature") \/ Contains(label_text, "enhancement")
           \/ Contains(text, "feat") \/ Contains(text, "request")
        THEN "feature request"
        ELSE IF Contains(label_text, "bug") \/ Contains(text, "bug")
                \/ Contains(text, "error") \/ Contains(text, "fix")
        THEN "bug"
        ELSE IF Contains(label_text, "question") \/ Contains(text, "how to")
                \/ Contains(label_text, "help")
        THEN "question"
        ELSE "other"

_classify_issue_category(title, body, labels) ==
    LET text == Lower(title \o "\n" \o body)
        label_text == Lower(Join(labels, " "))
    IN  IF Contains(label_text, "bug") \/ Contains(text, "bug")
           \/ Contains(text, "error") \/ Contains(text, "fix")
        THEN "bug"
        ELSE IF Contains(label_text, "feature") \/ Contains(label_text, "enhancement")
                \/ Contains(text, "feat") \/ Contains(text, "request")
        THEN "feature request"
        ELSE IF Contains(label_text, "question") \/ Contains(text, "how to")
                \/ Contains(label_text, "help")
        THEN "question"
        ELSE "other"

\* The first position from which word occurs in text, at or after position
\* from; 0 when there is none
Find(text, word, from) ==
    LET hits == {i \in from..(Len(text) - Len(word) + 1) : SubSeq(text, i, i + Len(word) - 1) = word}
    IN  IF hits = {} THEN 0 ELSE CHOOSE i \in hits : \A j \in hits : i <= j

\* The template patterns of _summarize_issue, 84-90: each is its opening
\* text followed by ".*?###".  "### (zh) checklist" stands for the Chinese
\* heading of line 86.
TemplateStarts == <<"### Check Ahead", "### (zh) checklist", "[x] I have searched", "### Environment", "### Description">>

\* re.sub(start + ".*?###", "", text, flags=DOTALL | IGNORECASE): every
\* leftmost shortest match is removed
RECURSIVE RemoveTemplate(_, _)
RemoveTemplate(text, start) ==
    LET i == Find(Lower(text), Lower(start), 1)
    IN  IF i = 0 THEN text
        ELSE LET j == Find(text, "###", i + Len(start))
             IN  IF j = 0 THEN text
                 ELSE SubSeq(text, 1, i - 1) \o RemoveTemplate(SubSeq(text, j + 3, Len(text)), start)

RECURSIVE RemoveTemplates(_, _)
RemoveTemplates(text, k) ==
    IF k > Len(TemplateStarts) THEN text
    ELSE RemoveTemplates(RemoveTemplate(text, TemplateStarts[k]), k + 1)

\* text.split(): the maximal runs of characters that are no whitespace,
\* from position i on
RECURSIVE Split(_, _)
Split(text, i) ==
    LET starts == {j \in i..Len(text) : CharAt(text, j) \notin Whitespace}
    IN  IF starts = {} THEN <<>>
        ELSE LET first == CHOOSE j \in starts : \A k \in starts : j <= k
                 stops == {j \in first..Len(text) : j = Len(text) \/ CharAt(text, j + 1) \in Whitespace}
                 last == CHOOSE j \in stops : \A k \in stops : j <= k
             IN  <<SubSeq(text, first, last)>> \o Split(text, last + 1)

\* text[:max_len] + ("..." if len(text) > max_len else "")
Ellipsis(text, max_len) ==
    Prefix(text, max_len) \o (IF Len(text) > max_len THEN "..." ELSE "")

\* The default of the parameter max_len of _summarize_issue
DefaultMaxLen == 200

\* The title-plus-cleaned-body text of _summarize_issue, 92-98
CombinedText(title, body) ==
    Join(Split(title \o " " \o RemoveTemplates(body, 1), 1), " ")

\* A summary whose ellipsis follows the whole text
_summarize_issue_NoCut(title, body, max_len) ==
    LET text == CombinedText(title, body)
        base == IF Len(text) < 20 \/ Contains(Lower(text), "check ahead")
                   \/ Contains(Lower(text), "searched the issues")
                THEN title ELSE text
    IN  base \o (IF Len(base) > max_len THEN "..." ELSE "")

\* A summary that falls back to the title up to 20 characters
_summarize_issue_UpTo20(title, body, max_len) ==
    LET text == CombinedText(title, body)
    IN  IF Len(text) <= 20 \/ Contains(Lower(text), "check ahead")
           \/ Contains(Lower(text), "searched the issues")
        THEN Ellipsis(title, max_len)
        ELSE Ellipsis(text, max_len)

\* _summarize_issue(title, body, max_len), 81-104, for max_len >= 0
_summarize_issue(title, body, max_len) ==
    LET text == CombinedText(title, body)
    IN  IF Len(text) < 20 \/ Contains(Lower(text), "check ahead")
           \/ Contains(Lower(text), "searched the issues")
        THEN Ellipsis(title, max_len)
        ELSE Ellipsis(text, max_len)

\* "a or b" of two texts
OrText(a, b) == IF a # "" THEN a ELSE b

\* The client handed to analyze_issues and analyze_discussions: none, one
\* without api_key, one with api_key
NoClient == [present |-> FALSE, api_key |-> FALSE]
NoKeyClient == [present |-> TRUE, api_key |-> FALSE]
KeyClient == [present |-> TRUE, api_key |-> TRUE]

\* The outcome of a client call that is not made
NoCall == [raised |-> FALSE, value |-> <<>>]

\* An issue summary that takes every text the summarizer returns
IssueSummary_NoPlaceholderTest(issue, qwen_client, call) ==
    LET raw_summary == _summarize_issue(Get(issue, "title", ""), Get(issue, "body", ""), DefaultMaxLen)
    IN  IF qwen_client.present /\ qwen_client.api_key /\ ~call.raised
        THEN LET ai_summary == OrText(Get(call.value, "summary", ""), Get(call.value, "comment", ""))
             IN  IF ai_summary # "" /\ ~IsBlank(ai_summary)
                 THEN Prefix(ai_summary, 200)
                 ELSE raw_summary
        ELSE raw_summary

\* analyze_issues, 162-178: the summary of one issue.  call is the outcome of
\* qwen_client.analyze_issue_summary(context); every exception of the try
\* block (the call raising, a null body that cannot be sliced) counts as
\* call.raised and leaves the heuristic summary.
IssueSummary(issue, qwen_client, call) ==
    LET raw_summary == _summarize_issue(Get(issue, "title", ""), Get(issue, "body", ""), DefaultMaxLen)
    IN  IF qwen_client.present /\ qwen_client.api_key /\ ~call.raised
        THEN LET ai_summary == OrText(Get(call.value, "summary", ""), Get(call.value, "comment", ""))
             IN  IF ai_summary # "" /\ ~IsBlank(ai_summary) /\ ~StartsWith(ai_summary, FailurePrefix)
                 THEN Prefix(ai_summary, 200)
                 ELSE raw_summary
        ELSE raw_summary

\* analyze_discussions, 121-129 and 144: the ai_summary of one discussion
DiscussionAiSummary(disc, qwen_client, call) ==
    IF qwen_client.present /\ qwen_client.api_key /\ ~call.raised
    THEN Prefix(OrText(Get(call.value, "summary", ""), Get(call.value, "comment", "")), 300)
    ELSE ""

\* analyze_issues, 154-198: one IssueAnalysis per record of the list
IssueAnalysisOf(issue, qwen_client, call) ==
    [number |-> Get(issue, "number", 0),
     created_at |-> Get(issue, "created_at", NoneTs),
     category |-> _classify_issue_category(Get(issue, "title", ""), Get(issue, "body", ""), Get(issue, "labels", <<>>)),
     summary |-> IssueSummary(issue, qwen_client, call),
     created_in_period |-> Get(issue, "_created_in_period", FALSE)]

analyze_issues(issues, qwen_client, results) ==
    [i \in 1..Len(issues) |-> IssueAnalysisOf(issues[i], qwen_client, results[i])]

\* analyze_discussions, 113-147: one DiscussionAnalysis per record of the list
DiscussionAnalysisOf(disc, qwen_client, call) ==
    [number |-> Get(disc, "number", 0),
     created_at |-> Get(disc, "created_at", NoneTs),
     updated_at |-> Get(disc, "updated_at", NoneTs),
     summary |-> _summarize_issue(Get(disc, "title", ""), Get(disc, "body", ""), DefaultMaxLen),
     ai_summary |-> DiscussionAiSummary(disc, qwen_client, call),
     created_in_period |-> Get(disc, "_created_in_period", FALSE)]

analyze_discussions(discs, qwen_client, results) ==
    [i \in 1..Len(discs) |-> DiscussionAnalysisOf(discs[i], qwen_client, results[i])]

\* A cascade that tests the test signals before the opt signals
_detect_pr_type_TestBeforeOpt(title, body, labels) ==
    LET text == Lower(title \o "\n" \o body)
        label_text == Lower(Join(labels, " "))
    IN  IF Contains(text, "feat") \/ Contains(text, "feature")
           \/ Contains(label_text, "enhancement") THEN "feat"
        ELSE IF Contains(text, "fix") \/ Contains(label_text, "bug") THEN "fix"
        ELSE IF Contains(label_text, "test") \/ Contains(text, "test") THEN "test"
        ELSE IF Contains(text, "refactor") \/ Contains(text, "opt")
                \/ Contains(text, "optimization") THEN "opt"
        ELSE IF Contains(label_text, "doc") \/ Contains(text, "docs") THEN "docs"
        ELSE "other"

_detect_pr_type(title, body, labels) ==
    LET text == Lower(title \o "\n" \o body)
        label_text == Lower(Join(labels, " "))
    IN  IF Contains(text, "feat") \/ Contains(text, "feature")
           \/ Contains(label_text, "enhancement") THEN "feat"
        ELSE IF Contains(text, "fix") \/ Contains(label_text, "bug") THEN "fix"
        ELSE IF Contains(text, "refactor") \/ Contains(text, "opt")
                \/ Contains(text, "optimization") THEN "opt"
        ELSE IF Contains(label_text, "test") \/ Contains(text, "test") THEN "test"
        ELSE IF Contains(label_text, "doc") \/ Contains(text, "docs") THEN "docs"
        ELSE "other"

\* A type score that gives nothing for tests
_type_score_TestZero(pr_type) ==
    CASE pr_type = "feat" -> 10
      [] pr_type = "opt" -> 8
      [] pr_type = "fix" -> 6
      [] pr_type = "test" -> 0
      [] pr_type = "docs" -> 5
      [] OTHER -> 5

_type_score(pr_type) ==
    CASE pr_type = "feat" -> 10
      [] pr_type = "opt" -> 8
      [] pr_type = "fix" -> 6
      [] pr_type = "test" -> 4
      [] pr_type = "docs" -> 5
      [] OTHER -> 5

_priority(pr_type) ==
    IF pr_type = "feat" THEN "P1"
    ELSE IF pr_type = "opt" THEN "P2"
    ELSE IF pr_type \in {"fix", "docs"} THEN "P3"
    ELSE IF pr_type = "test" THEN "P4"
    ELSE "P3"

\* "x or 0"
OrZero(v) == IF TruthyInt(v) THEN v ELSE 0

\* A score that is a text which is no number, such as "high"
TextScore == 0 - 2

\* int(v): an integer is itself; int(None) raises TypeError and int("high")
\* raises ValueError
PyInt(v) ==
    IF v # NullInt /\ v # TextScore THEN [error |-> FALSE, value |-> v]
    ELSE [error |-> TRUE, value |-> 0]

ScoreKeys == <<"code_quality_score", "test_coverage_score", "doc_maintain_score", "compliance_security_score", "merge_history_score", "collaboration_score">>

\* QwenClient.analyze_pr without an API key, qwen_client.py 37-46: no request
\* is made and every score is 0
NoKeyResult ==
    [k \in {ScoreKeys[i] : i \in 1..6} \cup {"comment"} |->
        IF k = "comment" THEN NoKeyNotice ELSE 0]

\* A PRAnalysis whose size is that of the raw additions alone
PRAnalysisOf_AdditionsOnly(pr, results, err) ==
    LET pr_type == _detect_pr_type(Get(pr, "title", ""), Get(pr, "body", ""), Get(pr, "labels", <<>>))
        type_score == _type_score(pr_type)
        additions == OrZero(Get(pr, "additions", 0))
        deletions == OrZero(Get(pr, "deletions", 0))
        size == _size_category_and_score(additions, 0)
        qwen_data == Get(results, Get(pr, "number", 0), <<>>)
        dim == [i \in 1..6 |-> PyInt(Get(qwen_data, ScoreKeys[i], 0)).value]
        total_score == _calc_total_score(<<type_score, size[2]>> \o dim, err)
    IN  [number |-> Get(pr, "number", 0),
         created_at |-> Get(pr, "created_at", NoneTs),
         additions |-> additions,
         deletions |-> deletions,
         pr_type |-> pr_type,
         size_category |-> size[1],
         priority |-> _priority(pr_type),
         type_score |-> type_score,
         size_score |-> size[2],
         scores |-> dim,
         total_score |-> total_score,
         rating |-> _rating(total_score)]

\* analyze_pull_requests, 427-491, for one PR; err is the float error of its
\* total score
PRAnalysisOf(pr, results, err) ==
    LET pr_type == _detect_pr_type(Get(pr, "title", ""), Get(pr, "body", ""), Get(pr, "labels", <<>>))
        type_score == _type_score(pr_type)
        additions == OrZero(Get(pr, "additions", 0))
        deletions == OrZero(Get(pr, "deletions", 0))
        size == _size_category_and_score(additions, deletions)
        qwen_data == Get(results, Get(pr, "number", 0), <<>>)
        dim == [i \in 1..6 |-> PyInt(Get(qwen_data, ScoreKeys[i], 0)).value]
        total_score == _calc_total_score(<<type_score, size[2]>> \o dim, err)
    IN  [number |-> Get(pr, "number", 0),
         created_at |-> Get(pr, "created_at", NoneTs),
         additions |-> additions,
         deletions |-> deletions,
         pr_type |-> pr_type,
         size_category |-> size[1],
         priority |-> _priority(pr_type),
         type_score |-> type_score,
         size_score |-> size[2],
         scores |-> dim,
         total_score |-> total_score,
         rating |-> _rating(total_score)]

analyze_pull_requests(details, results, errs) ==
    [i \in 1..Len(details) |-> PRAnalysisOf(details[i], results, errs[i])]

\* analyze_pull_requests, 441-449: one of the six int(...) calls raises, and
\* nothing in analyze_pull_requests catches it
analyze_pull_requests_raises(details, results) ==
    \E i \in 1..Len(details) :
        LET qwen_data == Get(results, Get(details[i], "number", 0), <<>>)
        IN  \E k \in 1..6 : PyInt(Get(qwen_data, ScoreKeys[k], 0)).error

----------------------------------------------------------------------------
(* analyzer.py: _clean_references.  Each re.sub replaces the leftmost      *)
(* matches from left to right, without overlap.                            *)

CharsOf(text) == {CharAt(text, i) : i \in 1..Len(text)}

\* \d and \w of the patterns, for ASCII texts
Digits == CharsOf("0123456789")
WordChars == CharsOf(UpperCase) \cup CharsOf(LowerCase) \cup Digits \cup {"_"}

\* The last position of the longest run of characters of chars that starts
\* at position i; i - 1 when the character at i is not one of them
RunEnd(text, i, chars) ==
    LET others == {j \in i..Len(text) : CharAt(text, j) \notin chars}
    IN  IF others = {} THEN Len(text)
        ELSE (CHOOSE j \in others : \A k \in others : j <= k) - 1

\* "#" followed by a digit stands at position i
RefAt(text, i) ==
    i >= 1 /\ i < Len(text) /\ CharAt(text, i) = "#" /\ CharAt(text, i + 1) \in Digits

Least(set) == CHOOSE i \in set : \A j \in set : i <= j

\* re.sub(r'(\w+)#(\d+)', r'\1-\2', text), 297, from position pos on
RECURSIVE SubOwnerRef(_, _)
SubOwnerRef(text, pos) ==
    LET starts == {i \in pos..Len(text) :
                      /\ CharAt(text, i) \in WordChars
                      /\ RefAt(text, RunEnd(text, i, WordChars) + 1)}
    IN  IF starts = {} THEN SubSeq(text, pos, Len(text))
        ELSE LET first == Least(starts)
                 hash == RunEnd(text, first, WordChars) + 1
                 last == RunEnd(text, hash + 1, Digits)
             IN  SubSeq(text, pos, hash - 1) \o "-" \o SubSeq(text, hash + 1, last)
                     \o SubOwnerRef(text, last + 1)

\* re.sub(r'#(\d+)', r'Item-\1', text), 298, from position pos on
RECURSIVE SubBareRef(_, _)
SubBareRef(text, pos) ==
    LET starts == {i \in pos..Len(text) : RefAt(text, i)}
    IN  IF starts = {} THEN SubSeq(text, pos, Len(text))
        ELSE LET hash == Least(starts)
                 last == RunEnd(text, hash + 1, Digits)
             IN  SubSeq(text, pos, hash - 1) \o "Item-" \o SubSeq(text, hash + 1, last)
                     \o SubBareRef(text, last + 1)

\* The position of the "#" of a match of word1\s+word2\s+...#(\d+), letter
\* case ignored, whose k-th word starts at position i; 0 when there is none
RECURSIVE KeywordHash(_, _, _, _)
KeywordHash(text, i, words, k) ==
    LET word == words[k]
        after == i + Len(word)
        space == RunEnd(text, after, Whitespace)
    IN  IF /\ after - 1 <= Len(text)
           /\ Lower(SubSeq(text, i, after - 1)) = word
           /\ space >= after
        THEN IF k < Len(words) THEN KeywordHash(text, space + 1, words, k + 1)
             ELSE IF RefAt(text, space + 1) THEN space + 1 ELSE 0
        ELSE 0

\* re.sub(r'word1\s+...#(\d+)', token + r'-\1', text, flags=re.IGNORECASE),
\* 299-302, from position pos on
RECURSIVE SubKeywordRef(_, _, _, _)
SubKeywordRef(text, pos, words, token) ==
    LET starts == {i \in pos..Len(text) : KeywordHash(text, i, words, 1) # 0}
    IN  IF starts = {} THEN SubSeq(text, pos, Len(text))
        ELSE LET first == Least(starts)
                 hash == KeywordHash(text, first, words, 1)
                 last == RunEnd(text, hash + 1, Digits)
             IN  SubSeq(text, pos, first - 1) \o token \o "-" \o SubSeq(text, hash + 1, last)
                     \o SubKeywordRef(text, last + 1, words, token)

\* The four keyword patterns, 299-302, in the order of the list
KeywordPatterns ==
    <<[words |-> <<"issue">>, token |-> "Issue"],
      [words |-> <<"pr">>, token |-> "PR"],
      [words |-> <<"pull", "request">>, token |-> "PR"],
      [words |-> <<"discussion">>, token |-> "Discussion"]>>

RECURSIVE SubKeywordRefs(_, _)
SubKeywordRefs(text, k) ==
    IF k > Len(KeywordPatterns) THEN text
    ELSE SubKeywordRefs(SubKeywordRef(text, 1, KeywordPatterns[k].words, KeywordPatterns[k].token), k + 1)

\* A cleaning that leaves the bare references
_clean_references_OwnerOnly(text) ==
    SubKeywordRefs(SubOwnerRef(text, 1), 1)

\* _clean_references(text), 291-310: the six substitutions in list order
_clean_references(text) ==
    SubKeywordRefs(SubBareRef(SubOwnerRef(text, 1), 1), 1)

----------------------------------------------------------------------------
(* analyzer.py: build_pr_context.  The context is a text; the model keeps   *)
(* its description and its file details: the entries of the three sections *)
(* and the numbers of the total line.  A file name is a number.            *)

MaxFilesConsidered == 50
MaxAddedShown == 20
MaxModifiedShown == 30
MaxRemovedShown == 10

\* "no description" (the Chinese text of line 316)
NoDescription == "no description"

\* list[:n]
FirstN(list, n) == SubSeq(list, 1, IF Len(list) < n THEN Len(list) ELSE n)

RECURSIVE TotalChanges(_, _)
TotalChanges(files, i) ==
    IF i > Len(files) THEN 0
    ELSE Get(files[i], "additions", 0) + Get(files[i], "deletions", 0) + TotalChanges(files, i + 1)

\* 372-388: the entry of one file in its section
FileInfo(f) ==
    LET status == Get(f, "status", "modified")
        additions == Get(f, "additions", 0)
        deletions == Get(f, "deletions", 0)
    IN  IF status = "added" THEN <<f.filename, "added", additions>>
        ELSE IF status = "removed" THEN <<f.filename, "removed", deletions>>
        ELSE <<f.filename, "modified", additions, deletions, additions + deletions>>

\* The status that decides the section: every status but added and removed
\* goes to the modified files
SectionStatus(f) ==
    IF Get(f, "status", "modified") \in {"added", "removed"} THEN Get(f, "status", "modified")
    ELSE "modified"

Section(files, status) ==
    LET chosen == SelectSeq(files, LAMBDA f : SectionStatus(f) = status)
    IN  [i \in 1..Len(chosen) |-> FileInfo(chosen[i])]

\* 362-401: the file details of the context; all is empty and zero when
\* files_list is empty, as no detail is written then
FileDetails(files) ==
    LET considered == FirstN(files, MaxFilesConsidered)
    IN  [added |-> FirstN(Section(considered, "added"), MaxAddedShown),
         modified |-> FirstN(Section(considered, "modified"), MaxModifiedShown),
         removed |-> FirstN(Section(considered, "removed"), MaxRemovedShown),
         total_files |-> Len(files),
         total_changes |-> TotalChanges(files, 1)]

\* build_pr_context(pr), 313-419
build_pr_context(pr) ==
    [description |-> _clean_references(OrText(Get(pr, "body", ""), NoDescription)),
     files |-> FileDetails(Get(pr, "files_list", <<>>))]

----------------------------------------------------------------------------
(* github_client.py: what main() needs of the record source *)

\* list_issues, 48-77.  The /issues endpoint holds a list of records, issues
\* and pull requests mixed, and serves it in pages of per_page records.

PerPageMax == 100      \* "per_page": min(100, max_count)

Min(a, b) == IF a < b THEN a ELSE b

\* _get(".../issues", params): the page of the endpoint
PageOf(items, page, per_page) ==
    SubSeq(items, (page - 1) * per_page + 1, Min(page * per_page, Len(items)))

\* [i for i in issues if "pull_request" not in i]
WithoutPullRequests(items) == SelectSeq(items, LAMBDA i : ~i.pull_request)

\* list_issues is not called
ListerIdle ==
    /\ source_items = <<>> /\ max_count = 0
    /\ params = [per_page |-> 0, page |-> 0]
    /\ all_issues = <<>> /\ requests_made = 0
    /\ lpc = "idle" /\ listed = <<>>

\* "created_at < since" of list_discussions, 244-247: a comparison of texts,
\* since being period_start.isoformat(), which ends in +00:00.  The empty
\* text sorts first, a text ending in Z after the same instant ending in
\* +00:00, a text without offset before it, and "unknown" after every digit.
TextBefore(text, since_t) ==
    CASE text[1] = "none" -> TRUE
      [] text[1] = "Z" -> text[2] < since_t
      [] text[1] = "offset" -> text[2] < since_t
      [] text[1] = "naive" -> text[2] <= since_t
      [] OTHER -> FALSE

\* list_discussions, 249-260: the record built from a GraphQL node
FormatDiscussion(node) ==
    [number |-> Get(node, "number", 0),
     created_at |-> Get(node, "createdAt", NoneTs),
     updated_at |-> Get(node, "updatedAt", NoneTs)]

\* list_discussions, 243-261, with a token and one page of nodes: the nodes
\* created before since are skipped, the others are formatted
list_discussions(nodes, since_t) ==
    LET kept == SelectSeq(nodes, LAMBDA n : ~TextBefore(Get(n, "createdAt", NoneTs), since_t))
    IN  [i \in 1..Len(kept) |-> FormatDiscussion(kept[i])]

\* get_pull_request_detail, 105-111, for a listed PR: the PR of that number
\* with its files_list
PullRequestDetail(pr) ==
    [k \in DOMAIN pr \cup {"files_list"} |-> IF k = "files_list" THEN <<>> ELSE pr[k]]

----------------------------------------------------------------------------
(* qwen_client.py: the scorer client.  Time is counted in whole seconds.   *)

MaxCalls == 4          \* a run makes at most MaxCalls client calls
MaxClock == 125        \* the caller starts no call after second MaxClock
MaxRate == 2           \* max_requests_per_minute ranges over 0..MaxRate

DefaultRequestsPerMinute == 30   \* max_requests_per_minute: int = 30
ThrottleWindow == 60             \* now - ts < 60

Methods == {"analyze_pr", "analyze_discussion", "analyze_issue_summary"}

\* The value returned when api_key is not set: 37-46, 142-145, 206-209
NoKeyPlaceholder(m) ==
    IF m = "analyze_pr" THEN NoKeyResult
    ELSE IF m = "analyze_discussion" THEN [summary |-> NoKeyNotice]
    ELSE [summary |-> ""]

\* The value returned by the except branch: 129-138, 199-202, 264-267
FailurePlaceholder(m, exc) ==
    IF m = "analyze_pr"
    THEN [k \in {ScoreKeys[i] : i \in 1..6} \cup {"comment"} |->
             IF k = "comment" THEN FailurePrefix \o ": " \o exc ELSE 0]
    ELSE IF m = "analyze_discussion" THEN [summary |-> FailurePrefix \o ": " \o exc]
    ELSE [summary |-> ""]

\* The try block, 112-138: json.loads(content) of a good response, the
\* placeholder when requests.post, raise_for_status, resp.json or json.loads
\* raises
Response(m, outcome) ==
    IF outcome.kind = "ok" THEN outcome.content
    ELSE FailurePlaceholder(m, outcome.kind)

\* What the network call can come to
Failures == {"timeout", "connection error", "HTTP 500", "malformed response"}

GoodContent(m) ==
    IF m = "analyze_pr"
    THEN [k \in {ScoreKeys[i] : i \in 1..6} \cup {"comment"} |->
             IF k = "comment" THEN "solid change" ELSE 7]
    ELSE [summary |-> "a short summary"]

Outcomes(m) ==
    {[kind |-> f, content |-> <<>>] : f \in Failures}
        \cup {[kind |-> "ok", content |-> GoodContent(m)]}

\* _throttle, 26-28: the timestamps younger than 60 seconds
Prune(timestamps, now_t) ==
    SelectSeq(timestamps, LAMBDA ts : now_t - ts < ThrottleWindow)

\* A capacity test that lets one more request through
AtCapacity_Above(timestamps, n) == Len(timestamps) > n

\* _throttle, 29
AtCapacity(timestamps, n) == Len(timestamps) >= n

\* _throttle, 30
SleepSec(timestamps, now_t) == ThrottleWindow - (now_t - timestamps[1]) + 1

\* No call in progress
CallIdle ==
    /\ cpc = "idle" /\ method = "none" /\ now = 0
    /\ sleeps = 0 /\ call_records = 0 /\ call_requests = 0

\* The client main() builds when no API key is configured, before any call
ClientIdle ==
    /\ api_key = FALSE
    /\ max_requests_per_minute = DefaultRequestsPerMinute
    /\ _request_timestamps = <<>>
    /\ clock = 0
    /\ CallIdle
    /\ recorded = <<>> /\ calls = 0
    /\ result = [raised |-> FALSE, value |-> <<>>]

----------------------------------------------------------------------------
(* main.py: the steps of main() after the configuration has been read.     *)
(* The run has a GitHub token for the source and no Qwen API key.          *)

IssueRecords == [number : Numbers, created_at : Timestamps, updated_at : Timestamps]
PRRecords == [number : Numbers, created_at : Timestamps]
DiscussionNodes == [number : Numbers, createdAt : Timestamps, updatedAt : Timestamps]

\* The records the sources can still serve in this run
Budget == MaxRecords - (Len(src_issues) + Len(src_prs) + Len(disc_nodes))

Init ==
    /\ fn = "none" /\ fn_in = <<>> /\ fn_out = <<>>
    /\ ClientIdle
    /\ ListerIdle
    /\ pc = "list_issues"
    /\ period \in {"today", "day", "week"}
    /\ period_start = 1
    /\ period_end = MaxTime - 1
    /\ src_issues = <<>> /\ raw_issues = <<>>
    /\ created_issues = <<>> /\ updated_issues = <<>>
    /\ src_prs = <<>> /\ raw_prs = <<>>
    /\ detailed_prs = <<>> /\ qwen_results = <<>>
    /\ disc_nodes = <<>> /\ src_discussions = <<>> /\ raw_discussions = <<>>
    /\ created_discussions = <<>> /\ updated_discussions = <<>>
    /\ issues_analysis = <<>> /\ prs_analysis = <<>> /\ discussions_analysis = <<>>

\* 129-133: raw_issues = source_client.list_issues(...)
ListIssues ==
    /\ pc = "list_issues"
    /\ \E k \in 0..Budget : \E list \in [1..k -> IssueRecords] :
          /\ src_issues' = list
          /\ raw_issues' = list
    /\ pc' = "partition_issues"
    /\ UNCHANGED <<lister_vars, pure_vars, client_vars, period_vars, created_issues, updated_issues, pr_vars, disc_vars, result_vars>>

\* 136-174: the issues are split into the created and the updated bucket,
\* merged, deduplicated and tagged; raw_issues = filtered_issues
PartitionIssues ==
    /\ pc = "partition_issues"
    /\ created_issues' = BucketList(raw_issues, "created", period, period_start, period_end)
    /\ updated_issues' = BucketList(raw_issues, "updated", period, period_start, period_end)
    /\ raw_issues' = MergeAndDedup(created_issues', updated_issues')
    /\ pc' = "list_prs"
    /\ UNCHANGED <<lister_vars, pure_vars, client_vars, period_vars, src_issues, pr_vars, disc_vars, result_vars>>

\* 176-179: raw_prs = source_client.list_pull_requests(...)
ListPullRequests ==
    /\ pc = "list_prs"
    /\ \E k \in 0..Budget : \E list \in [1..k -> PRRecords] :
          /\ src_prs' = list
          /\ raw_prs' = list
    /\ pc' = "filter_prs"
    /\ UNCHANGED <<lister_vars, pure_vars, client_vars, period_vars, issue_vars, detailed_prs, qwen_results, disc_vars, result_vars>>

\* 183-195, for one PR: it is kept iff created_at is set, parses and lies in
\* the window; an exception drops it
PRInPeriod(pr, p, ps, pe) ==
    LET pr_created == Get(pr, "created_at", NoneTs)
    IN  IF ~TruthyTs(pr_created) THEN FALSE
        ELSE
          LET pr_date == fromisoformat(ReplaceZ(pr_created))
          IN  IF pr_date.error \/ ~pr_date.aware THEN FALSE
              ELSE InWindow(pr_date.t, p, ps, pe)

\* 181-196: raw_prs = filtered_prs
FilterPullRequests ==
    /\ pc = "filter_prs"
    /\ raw_prs' = SelectSeq(raw_prs, LAMBDA pr : PRInPeriod(pr, period, period_start, period_end))
    /\ pc' = "list_discussions"
    /\ UNCHANGED <<lister_vars, pure_vars, client_vars, period_vars, issue_vars, src_prs, detailed_prs, qwen_results, disc_vars, result_vars>>

\* 198-203: raw_discussions = source_client.list_discussions(since=since_iso)
ListDiscussions ==
    /\ pc = "list_discussions"
    /\ \E k \in 0..Budget : \E nodes \in [1..k -> DiscussionNodes] :
          /\ disc_nodes' = nodes
          /\ src_discussions' = list_discussions(nodes, period_start)
          /\ raw_discussions' = list_discussions(nodes, period_start)
    /\ pc' = "partition_discussions"
    /\ UNCHANGED <<lister_vars, pure_vars, client_vars, period_vars, issue_vars, pr_vars, created_discussions, updated_discussions, result_vars>>

\* 206-244: as for the issues, when the list is not empty
PartitionDiscussions ==
    /\ pc = "partition_discussions"
    /\ IF raw_discussions # <<>>
       THEN /\ created_discussions' = BucketList(raw_discussions, "created", period, period_start, period_end)
            /\ updated_discussions' = BucketList(raw_discussions, "updated", period, period_start, period_end)
            /\ raw_discussions' = MergeAndDedup(created_discussions', updated_discussions')
       ELSE UNCHANGED <<raw_discussions, created_discussions, updated_discussions>>
    /\ pc' = "get_details"
    /\ UNCHANGED <<lister_vars, pure_vars, client_vars, period_vars, issue_vars, pr_vars, disc_nodes, src_discussions, result_vars>>

\* 251-260: the detail of every PR with a number is fetched; fetched[i] tells
\* whether the request for the i-th PR returned or raised
RECURSIVE DetailLoop(_, _, _)
DetailLoop(prs, fetched, i) ==
    IF i > Len(prs) THEN <<>>
    ELSE IF ~TruthyInt(Get(prs[i], "number", NullInt)) THEN DetailLoop(prs, fetched, i + 1)
    ELSE IF fetched[i] THEN <<PullRequestDetail(prs[i])>> \o DetailLoop(prs, fetched, i + 1)
    ELSE DetailLoop(prs, fetched, i + 1)

\* 250-260: detailed_prs
GetDetails ==
    /\ pc = "get_details"
    /\ \E fetched \in [1..Len(raw_prs) -> BOOLEAN] :
          detailed_prs' = DetailLoop(raw_prs, fetched, 1)
    /\ pc' = "score_prs"
    /\ UNCHANGED <<lister_vars, pure_vars, client_vars, period_vars, issue_vars, src_prs, raw_prs, qwen_results, disc_vars, result_vars>>

\* 280-284: qwen_results[pr.get("number", 0)] = qwen_client.analyze_pr(ctx)
ScorePullRequests ==
    /\ pc = "score_prs"
    /\ qwen_results' = [n \in {Get(detailed_prs[i], "number", 0) : i \in 1..Len(detailed_prs)} |-> NoKeyResult]
    /\ pc' = "analyze"
    /\ UNCHANGED <<lister_vars, pure_vars, client_vars, period_vars, issue_vars, src_prs, raw_prs, detailed_prs, disc_vars, result_vars>>

\* 286-288: the three analyses
Analyze ==
    /\ pc = "analyze"
    /\ issues_analysis' = analyze_issues(raw_issues, NoKeyClient, [i \in 1..Len(raw_issues) |-> NoCall])
    /\ \E errs \in [1..Len(detailed_prs) -> (0 - FloatErr)..FloatErr] :
          prs_analysis' = analyze_pull_requests(detailed_prs, qwen_results, errs)
    /\ discussions_analysis' = analyze_discussions(raw_discussions, NoKeyClient, [i \in 1..Len(raw_discussions) |-> NoCall])
    /\ pc' = "done"
    /\ UNCHANGED <<lister_vars, pure_vars, client_vars, period_vars, issue_vars, pr_vars, disc_vars>>

Next ==
    \/ ListIssues
    \/ PartitionIssues
    \/ ListPullRequests
    \/ FilterPullRequests
    \/ ListDiscussions
    \/ PartitionDiscussions
    \/ GetDetails
    \/ ScorePullRequests
    \/ Analyze

Spec == Init /\ [][Next]_vars

----------------------------------------------------------------------------
(* PureSpec: each scoring function applied once to arguments drawn from its *)
(* domain.                                                                  *)

Scores == 0..MaxScore
DimScores == {0, 7, MaxScore}     \* the dimension scores that are enumerated
ScoreArgs == [1..2 -> Scores] \X [1..6 -> DimScores]

\* main() is not started
MainIdle ==
    /\ pc = "idle"
    /\ period = "day" /\ period_start = 1 /\ period_end = MaxTime - 1
    /\ src_issues = <<>> /\ raw_issues = <<>>
    /\ created_issues = <<>> /\ updated_issues = <<>>
    /\ src_prs = <<>> /\ raw_prs = <<>>
    /\ detailed_prs = <<>> /\ qwen_results = <<>>
    /\ disc_nodes = <<>> /\ src_discussions = <<>> /\ raw_discussions = <<>>
    /\ created_discussions = <<>> /\ updated_discussions = <<>>
    /\ issues_analysis = <<>> /\ prs_analysis = <<>> /\ discussions_analysis = <<>>

PureInit ==
    /\ MainIdle
    /\ ClientIdle
    /\ ListerIdle
    /\ fn_out = <<>>
    /\ \/ /\ fn = "_calc_total_score"
          /\ \E a \in ScoreArgs : fn_in = a[1] \o [i \in 1..6 |-> a[2][i]]
       \/ /\ fn = "_size_category_and_score"
          /\ fn_in \in (0..MaxAdditions) \X (0..MaxDeletions)
       \/ /\ fn = "_rating"
          /\ fn_in \in {<<t>> : t \in 0..MaxTotal}

ApplyCalcTotalScore ==
    /\ fn = "_calc_total_score" /\ fn_out = <<>>
    /\ \E err \in (0 - FloatErr)..FloatErr :
          fn_out' = <<_calc_total_score(fn_in, err)>>
    /\ UNCHANGED <<lister_vars, fn, fn_in, main_vars, client_vars>>

ApplySizeCategory ==
    /\ fn = "_size_category_and_score" /\ fn_out = <<>>
    /\ fn_out' = _size_category_and_score(fn_in[1], fn_in[2])
    /\ UNCHANGED <<lister_vars, fn, fn_in, main_vars, client_vars>>

ApplyRating ==
    /\ fn = "_rating" /\ fn_out = <<>>
    /\ fn_out' = <<_rating(fn_in[1])>>
    /\ UNCHANGED <<lister_vars, fn, fn_in, main_vars, client_vars>>

PureNext ==
    \/ ApplyCalcTotalScore
    \/ ApplySizeCategory
    \/ ApplyRating

PureSpec == PureInit /\ [][PureNext]_vars

----------------------------------------------------------------------------
(* AnalyzerSpec: the classifiers, the summary, the reference cleaning, the *)
(* PR context and the three analyze functions of analyzer.py, each applied *)
(* once to arguments drawn from its domain.                                *)

\* The words of a list that a mask selects, in list order
RECURSIVE Masked(_, _, _)
Masked(words, mask, i) ==
    IF i > Len(words) THEN <<>>
    ELSE IF mask[i] THEN <<words[i]>> \o Masked(words, mask, i + 1)
    ELSE Masked(words, mask, i + 1)

Masks(words) == [1..Len(words) -> BOOLEAN]

\* Titles, bodies and label lists of issues: every combination of the words
IssueTitleWords == <<"Bug", "error", "prefix", "how">>
IssueBodyWords == <<"to", "defeat", "Request", "How to">>
IssueLabelNames == <<"bug", "Feature", "enhancement", "question", "help wanted">>

\* Titles, bodies and label lists of pull requests
PRTitleWords == <<"Feature", "fix", "Refactor", "doc">>
PRBodyWords == <<"adopt", "tests", "docs">>
PRLabelNames == <<"enhancement", "bug", "test", "documentation">>

\* The scorer results for one PR: each of the six scores is missing, null, a
\* text or a number
MissingScore == 0 - 3
ScoreValues == {MissingScore, NullInt, TextScore, 0, 7}

QwenData(choice) ==
    [k \in {ScoreKeys[i] : i \in {j \in 1..6 : choice[j] # MissingScore}} |->
        choice[CHOOSE i \in 1..6 : ScoreKeys[i] = k]]

\* A PR detail with the title and, unless they are MissingScore, the
\* additions and deletions (NullInt is a null field)
PRDetail(title, additions, deletions) ==
    LET keys == {"number", "title", "body", "labels"}
                    \cup (IF additions = MissingScore THEN {} ELSE {"additions"})
                    \cup (IF deletions = MissingScore THEN {} ELSE {"deletions"})
    IN  [k \in keys |->
            CASE k = "number" -> 1
              [] k = "title" -> title
              [] k = "body" -> ""
              [] k = "labels" -> <<>>
              [] k = "additions" -> additions
              [] k = "deletions" -> deletions]

\* The PRs that are analysed: one title of each type, sizes around the two
\* limits, and the results of the scorer: none for the PR, all six scores
\* 0, 7 or 10, the placeholder of a client without key, that of a failed call
PRTitles == {"feat: add caching layer", "fix crash", "optimize the cache", "add tests", "update docs", "bump version"}
PRAdditions == {MissingScore, NullInt, 0, 40, 190, 300}
PRDeletions == {MissingScore, NullInt, 0, 10}
PRResults ==
    {<<>>} \cup {[n \in {1} |-> QwenData([i \in 1..6 |-> v])] : v \in {0, 7, 10}}
        \cup {[n \in {1} |-> NoKeyPlaceholder("analyze_pr")]}
        \cup {[n \in {1} |-> FailurePlaceholder("analyze_pr", "timeout")]}

\* The files of a PR: blocks of added, modified, renamed and removed files,
\* in this order or the reverse; file i has i additions and 2 deletions
Reverse(list) == [i \in 1..Len(list) |-> list[Len(list) + 1 - i]]

FileBlocks(na, nm, nn, nr) ==
    [i \in 1..(na + nm + nn + nr) |->
        [filename |-> i, additions |-> i, deletions |-> 2,
         status |-> IF i <= na THEN "added"
                    ELSE IF i <= na + nm THEN "modified"
                    ELSE IF i <= na + nm + nn THEN "renamed"
                    ELSE "removed"]]

FileLists ==
    LET blocks == {FileBlocks(na, nm, nn, nr) : na \in {0, 1, 20, 21}, nm \in {0, 19, 30}, nn \in {0, 1}, nr \in {0, 1, 10, 11}}
    IN  blocks \cup {Reverse(b) : b \in blocks}

PRBodies == {"", "Fixes apache#123 and #45"}

\* The issues and discussions that are analysed
SummaryTitles == {"Crash on start", "Startup fails with a stack trace"}
SummaryBodies == {"", "### Check Ahead\n[x] done ### The app stops after the login page"}

RECURSIVE Repeat(_, _)
Repeat(text, n) == IF n = 0 THEN "" ELSE text \o Repeat(text, n - 1)

\* The texts the summarizer answers with: empty, blank, one that starts as
\* the failure placeholder does, a short one, one of 310 characters
LongText == Repeat("0123456789", 31)
SummaryTexts == {"", " \n", FailurePrefix \o ": upstream", "the core problem", LongText}

SummaryOutcomes ==
    {[kind |-> f, content |-> <<>>] : f \in Failures}
        \cup {[kind |-> "ok", content |-> [summary |-> t]] : t \in SummaryTexts}
        \cup {[kind |-> "ok", content |-> [comment |-> "see the comment"]],
              [kind |-> "ok", content |-> <<>>]}

\* The outcomes of a call of method m on a client with api_key: _throttle
\* raises, or the call returns the response
CallOutcomes(m) ==
    {[raised |-> TRUE, value |-> <<>>]}
        \cup {[raised |-> FALSE, value |-> Response(m, o)] : o \in SummaryOutcomes}

Clients == {NoClient, NoKeyClient, KeyClient}

\* The arguments of _summarize_issue: titles of 0, 3, 20 and 310 characters,
\* one of 21 that collapses to 20, one of 19 that collapses to 18, one with
\* a boilerplate marker; bodies that are empty, short, a closed template, an
\* open template with a marker, and long; four values of max_len
SummarizeTitles ==
    {"", "Bug", "Login page is broken", "Login page is  broken", "Login page  crashes",
     "Check ahead of the release branch", LongText}
SummarizeBodies ==
    {"", "ok", "### Check Ahead\n[x] done ### The app stops after the login page",
     "### Environment linux and I searched the issues first", LongText}
MaxLens == {0, 5, 20, DefaultMaxLen}

\* The arguments of _clean_references: one or two pieces, joined with or
\* without a blank
ReferencePieces ==
    {"", "Fixes", "apache#123", "#45", "and #45", "issue #123", "Issue  #9", "PR #7",
     "pull request #8", "discussion\t#10", "owner/repo#123", "a#1#2", "#", "#x", "C#",
     "issue#5", "see #12.", "Item-45", "Fixes apache#123 and #45"}
ReferenceTexts ==
    ReferencePieces \cup {a \o sep \o b : a \in ReferencePieces, b \in ReferencePieces, sep \in {"", " "}}

AnalyzerInit ==
    /\ MainIdle
    /\ ClientIdle
    /\ ListerIdle
    /\ fn_out = <<>>
    /\ \/ /\ fn = "_classify_issue_category"
          /\ \E t \in Masks(IssueTitleWords), b \in Masks(IssueBodyWords), l \in Masks(IssueLabelNames) :
                fn_in = <<Join(Masked(IssueTitleWords, t, 1), " "),
                          Join(Masked(IssueBodyWords, b, 1), " "),
                          Masked(IssueLabelNames, l, 1)>>
       \/ /\ fn = "_detect_pr_type"
          /\ \E t \in Masks(PRTitleWords), b \in Masks(PRBodyWords), l \in Masks(PRLabelNames) :
                fn_in = <<Join(Masked(PRTitleWords, t, 1), " "),
                          Join(Masked(PRBodyWords, b, 1), " "),
                          Masked(PRLabelNames, l, 1)>>
       \/ /\ fn = "_summarize_issue"
          /\ \E t \in SummarizeTitles, b \in SummarizeBodies, n \in MaxLens :
                fn_in = <<t, b, n>>
       \/ /\ fn = "_clean_references"
          /\ \E text \in ReferenceTexts : fn_in = <<text>>
       \/ /\ fn = "build_pr_context"
          /\ \E files \in FileLists, body \in PRBodies :
                fn_in = <<[number |-> 1, body |-> body, files_list |-> files]>>
       \/ /\ fn = "analyze_issues"
          /\ \E t \in SummaryTitles, b \in SummaryBodies, c \in Clients :
                \E call \in CallOutcomes("analyze_issue_summary") :
                    fn_in = << <<[number |-> 1, title |-> t, body |-> b]>>, c, <<call>> >>
       \/ /\ fn = "analyze_discussions"
          /\ \E t \in SummaryTitles, b \in SummaryBodies, c \in Clients :
                \E call \in CallOutcomes("analyze_discussion") :
                    fn_in = << <<[number |-> 1, title |-> t, body |-> b]>>, c, <<call>> >>
       \/ /\ fn = "analyze_pull_requests"
          /\ \E choice \in [1..6 -> ScoreValues] :
                fn_in = << <<[number |-> 1, title |-> "fix"]>>, [n \in {1} |-> QwenData(choice)] >>
       \/ /\ fn = "analyze_pull_requests"
          /\ \E t \in PRTitles, a \in PRAdditions, d \in PRDeletions, r \in PRResults :
                fn_in = << <<PRDetail(t, a, d)>>, r >>

\* analyze_pull_requests(raw_pr_details, qwen_results): the list of PRAnalysis,
\* or the exception of an int(...) call
ApplyAnalyzePullRequests ==
    /\ fn = "analyze_pull_requests" /\ fn_out = <<>>
    /\ IF analyze_pull_requests_raises(fn_in[1], fn_in[2])
       THEN fn_out' = <<"raised">>
       ELSE \E errs \in [1..Len(fn_in[1]) -> (0 - FloatErr)..FloatErr] :
               fn_out' = <<"returned", analyze_pull_requests(fn_in[1], fn_in[2], errs)>>
    /\ UNCHANGED <<lister_vars, fn, fn_in, main_vars, client_vars>>

\* analyze_issues(raw_issues, qwen_client)
ApplyAnalyzeIssues ==
    /\ fn = "analyze_issues" /\ fn_out = <<>>
    /\ fn_out' = <<analyze_issues(fn_in[1], fn_in[2], fn_in[3])>>
    /\ UNCHANGED <<lister_vars, fn, fn_in, main_vars, client_vars>>

\* analyze_discussions(raw_discussions, qwen_client)
ApplyAnalyzeDiscussions ==
    /\ fn = "analyze_discussions" /\ fn_out = <<>>
    /\ fn_out' = <<analyze_discussions(fn_in[1], fn_in[2], fn_in[3])>>
    /\ UNCHANGED <<lister_vars, fn, fn_in, main_vars, client_vars>>

ApplySummarizeIssue ==
    /\ fn = "_summarize_issue" /\ fn_out = <<>>
    /\ fn_out' = <<_summarize_issue(fn_in[1], fn_in[2], fn_in[3])>>
    /\ UNCHANGED <<lister_vars, fn, fn_in, main_vars, client_vars>>

ApplyCleanReferences ==
    /\ fn = "_clean_references" /\ fn_out = <<>>
    /\ fn_out' = <<_clean_references(fn_in[1])>>
    /\ UNCHANGED <<lister_vars, fn, fn_in, main_vars, client_vars>>

ApplyBuildPRContext ==
    /\ fn = "build_pr_context" /\ fn_out = <<>>
    /\ fn_out' = <<build_pr_context(fn_in[1])>>
    /\ UNCHANGED <<lister_vars, fn, fn_in, main_vars, client_vars>>

ApplyClassifyIssueCategory ==
    /\ fn = "_classify_issue_category" /\ fn_out = <<>>
    /\ fn_out' = <<_classify_issue_category(fn_in[1], fn_in[2], fn_in[3])>>
    /\ UNCHANGED <<lister_vars, fn, fn_in, main_vars, client_vars>>

ApplyDetectPRType ==
    /\ fn = "_detect_pr_type" /\ fn_out = <<>>
    /\ fn_out' = <<_detect_pr_type(fn_in[1], fn_in[2], fn_in[3])>>
    /\ UNCHANGED <<lister_vars, fn, fn_in, main_vars, client_vars>>

AnalyzerNext ==
    \/ ApplyClassifyIssueCategory
    \/ ApplyDetectPRType
    \/ ApplyAnalyzePullRequests
    \/ ApplyAnalyzeIssues
    \/ ApplyAnalyzeDiscussions
    \/ ApplySummarizeIssue
    \/ ApplyCleanReferences
    \/ ApplyBuildPRContext

AnalyzerSpec == AnalyzerInit /\ [][AnalyzerNext]_vars

----------------------------------------------------------------------------
(* ClientSpec: one QwenClient used by a single sequential caller.  The     *)
(* clock never runs backwards and time.sleep returns no earlier than asked. *)

TickSteps == {30, 59}

ClientInit ==
    /\ MainIdle
    /\ ListerIdle
    /\ fn = "none" /\ fn_in = <<>> /\ fn_out = <<>>
    /\ api_key \in BOOLEAN
    /\ max_requests_per_minute \in 0..MaxRate
    /\ _request_timestamps = <<>>
    /\ clock = 0
    /\ CallIdle
    /\ recorded = <<>> /\ calls = 0
    /\ result = [raised |-> FALSE, value |-> <<>>]

\* Time passes between two calls, or between two statements of _throttle
Tick ==
    /\ cpc \in {"idle", "record"}
    /\ \E d \in TickSteps :
          /\ clock + d <= MaxClock
          /\ clock' = clock + d
    /\ UNCHANGED <<lister_vars, pure_vars, main_vars, api_key, max_requests_per_minute, _request_timestamps, cpc, method, now, sleeps, call_records, call_requests, recorded, calls, result>>

\* 35-48, 140-147, 204-211: a call of one of the three methods; without
\* api_key it returns its placeholder at once
StartCall ==
    /\ cpc = "idle"
    /\ calls < MaxCalls
    /\ \E m \in Methods :
          /\ method' = m
          /\ IF api_key
             THEN cpc' = "throttle" /\ UNCHANGED result
             ELSE /\ cpc' = "idle"
                  /\ result' = [raised |-> FALSE, value |-> NoKeyPlaceholder(m)]
    /\ calls' = calls + 1
    /\ sleeps' = 0 /\ call_records' = 0 /\ call_requests' = 0
    /\ UNCHANGED <<lister_vars, pure_vars, main_vars, api_key, max_requests_per_minute, _request_timestamps, clock, now, recorded>>

\* _throttle, 25-32: now is read, the log is pruned and the capacity is
\* tested; self._request_timestamps[0] raises IndexError on an empty log, and
\* the exception leaves the method, which calls _throttle outside its try
ThrottlePrune ==
    /\ cpc = "throttle"
    /\ now' = clock
    /\ _request_timestamps' = Prune(_request_timestamps, clock)
    /\ IF AtCapacity(_request_timestamps', max_requests_per_minute)
       THEN IF _request_timestamps' = <<>>
            THEN /\ cpc' = "idle"
                 /\ result' = [raised |-> TRUE, value |-> <<>>]
            ELSE /\ cpc' = IF SleepSec(_request_timestamps', clock) > 0 THEN "sleep" ELSE "record"
                 /\ UNCHANGED result
       ELSE cpc' = "record" /\ UNCHANGED result
    /\ UNCHANGED <<lister_vars, pure_vars, main_vars, api_key, max_requests_per_minute, clock, method, sleeps, call_records, call_requests, recorded, calls>>

\* _throttle, 32: time.sleep(sleep_sec)
ThrottleSleep ==
    /\ cpc = "sleep"
    /\ clock' = clock + SleepSec(_request_timestamps, now)
    /\ sleeps' = sleeps + 1
    /\ cpc' = "record"
    /\ UNCHANGED <<lister_vars, pure_vars, main_vars, api_key, max_requests_per_minute, _request_timestamps, method, now, call_records, call_requests, recorded, calls, result>>

\* _throttle, 33: self._request_timestamps.append(time.time())
ThrottleRecord ==
    /\ cpc = "record"
    /\ _request_timestamps' = Append(_request_timestamps, clock)
    /\ recorded' = Append(recorded, clock)
    /\ call_records' = call_records + 1
    /\ cpc' = "post"
    /\ UNCHANGED <<lister_vars, pure_vars, main_vars, api_key, max_requests_per_minute, clock, method, now, sleeps, call_requests, calls, result>>

\* 112-138: the request is made and the call returns the parsed content or
\* the failure placeholder
Post ==
    /\ cpc = "post"
    /\ call_requests' = call_requests + 1
    /\ \E outcome \in Outcomes(method) :
          result' = [raised |-> FALSE, value |-> Response(method, outcome)]
    /\ cpc' = "idle"
    /\ UNCHANGED <<lister_vars, pure_vars, main_vars, api_key, max_requests_per_minute, _request_timestamps, clock, method, now, sleeps, call_records, recorded, calls>>

ClientNext ==
    \/ Tick
    \/ StartCall
    \/ ThrottlePrune
    \/ ThrottleSleep
    \/ ThrottleRecord
    \/ Post

ClientSpec == ClientInit /\ [][ClientNext]_vars

----------------------------------------------------------------------------
(* ListSpec: one call of GitHubClient.list_issues against an endpoint that *)
(* answers every request.                                                  *)

\* The endpoint holds up to three pages of 100 records; the records at some
\* of the positions 1, 2, 100, 101 and 200 are pull requests; max_count is
\* below, at and above the page size, 300 being the default of main()
SourceLengths == {0, 1, 2, 3, 99, 100, 101, 150, 200, 250}
PullRequestPositions == {1, 2, 100, 101, 200}
MaxCounts == {0, 1, 2, 100, 120, 300}

ListInit ==
    /\ MainIdle
    /\ ClientIdle
    /\ fn = "none" /\ fn_in = <<>> /\ fn_out = <<>>
    /\ \E k \in SourceLengths, prs \in SUBSET PullRequestPositions :
          source_items = [i \in 1..k |-> [number |-> i, pull_request |-> i \in prs]]
    /\ max_count \in MaxCounts
    /\ params = [per_page |-> 0, page |-> 0]
    /\ all_issues = <<>> /\ requests_made = 0
    /\ lpc = "start" /\ listed = <<>>

\* 55-62: params and all_issues
ListIssuesStart ==
    /\ lpc = "start"
    /\ params' = [per_page |-> Min(PerPageMax, max_count), page |-> 1]
    /\ all_issues' = <<>>
    /\ lpc' = "while"
    /\ UNCHANGED <<pure_vars, main_vars, client_vars, source_items, max_count, requests_made, listed>>

\* 64-75: one turn of the while loop
ListIssuesPage ==
    /\ lpc = "while"
    /\ Len(all_issues) < max_count
    /\ requests_made' = requests_made + 1
    /\ LET got == PageOf(source_items, params.page, params.per_page)
           issues == WithoutPullRequests(got)
       IN  IF got = <<>>
           THEN /\ lpc' = "return"
                /\ UNCHANGED <<all_issues, params>>
           ELSE /\ all_issues' = all_issues \o FirstN(issues, max_count - Len(all_issues))
                /\ IF Len(issues) < params.per_page
                   THEN lpc' = "return" /\ UNCHANGED params
                   ELSE lpc' = "while" /\ params' = [params EXCEPT !.page = params.page + 1]
    /\ UNCHANGED <<pure_vars, main_vars, client_vars, source_items, max_count, listed>>

\* 64 and 77: the loop is left, all_issues[:max_count] is returned
ListIssuesReturn ==
    /\ lpc = "return" \/ (lpc = "while" /\ Len(all_issues) >= max_count)
    /\ listed' = FirstN(all_issues, max_count)
    /\ lpc' = "done"
    /\ UNCHANGED <<pure_vars, main_vars, client_vars, source_items, max_count, params, all_issues, requests_made>>

ListNext ==
    \/ ListIssuesStart
    \/ ListIssuesPage
    \/ ListIssuesReturn

ListSpec == ListInit /\ [][ListNext]_vars

----------------------------------------------------------------------------
(* Properties of the scoring functions, checked under PureSpec *)

Applied(f) == fn = f /\ fn_out # <<>>

\* C1: for type, size and six dimension scores in 0..10, _calc_total_score
\* returns (5*type + 5*size + 15*(sum of the six dimensions)) / 10 points,
\* that is 5*type + 5*size + 15*sum tenths, and the result lies in [0, 100].
C1_TotalScoreIsWeightedSum ==
    Applied("_calc_total_score") =>
        /\ fn_out[1] = 5 * fn_in[1] + 5 * fn_in[2]
                       + 15 * (fn_in[3] + fn_in[4] + fn_in[5] + fn_in[6] + fn_in[7] + fn_in[8])
        /\ 0 <= fn_out[1] /\ fn_out[1] <= 1000

\* The scenario of the specification: feat (10), large (9), every dimension 7
\* gives 72.5
C1_Witness ==
    /\ Applied("_calc_total_score")
    /\ fn_in = <<10, 9, 7, 7, 7, 7, 7, 7>>
    /\ fn_out = <<725>>

\* C2: with lines = additions + deletions, _size_category_and_score returns
\* (small, 5) when lines < 50, (medium, 7) when 50 <= lines <= 200 and
\* (large, 9) when lines > 200.
C2_SizeBuckets ==
    Applied("_size_category_and_score") =>
        LET lines == fn_in[1] + fn_in[2]
        IN  /\ lines < 50 => fn_out = <<"small", 5>>
            /\ (50 <= lines /\ lines <= 200) => fn_out = <<"medium", 7>>
            /\ lines > 200 => fn_out = <<"large", 9>>

\* 200 lines, the upper boundary of medium
C2_Witness ==
    /\ Applied("_size_category_and_score")
    /\ fn_in[1] + fn_in[2] = 200 /\ fn_in[2] > 0
    /\ fn_out = <<"medium", 7>>

----------------------------------------------------------------------------
(* Properties of main(), checked under Spec *)

IssuesPartitioned ==
    pc \in {"list_prs", "filter_prs", "list_discussions", "partition_discussions",
            "get_details", "score_prs", "analyze", "done"}

DiscussionsPartitioned == pc \in {"get_details", "score_prs", "analyze", "done"}

\* The timestamp text denotes an instant that can be compared with the window
IsInstant(text) == text[1] \in {"Z", "offset"}

\* The timestamp falls in the period window: the end is included for "today"
\* and excluded for "day" and "week"
FallsInWindow(text) ==
    /\ IsInstant(text)
    /\ period_start <= text[2]
    /\ IF period = "today" THEN text[2] <= period_end ELSE text[2] < period_end

\* Both timestamps of the record parse (updated_at may be absent)
ParsableRecord(r) ==
    /\ IsInstant(r.created_at)
    /\ IsInstant(r.updated_at) \/ r.updated_at = NoneTs

CreatedInPeriod(r) == FallsInWindow(r.created_at)

UpdatedInPeriod(r) ==
    /\ ~CreatedInPeriod(r)
    /\ FallsInWindow(r.updated_at)
    /\ r.updated_at # r.created_at

\* The record without its tag
Untag(rec) == [k \in DOMAIN rec \ {"_created_in_period"} |-> rec[k]]

NumbersOf(list) == {list[i].number : i \in 1..Len(list)}

\* How many records of the list carry the number
CountNumber(list, n) == Cardinality({i \in 1..Len(list) : list[i].number = n})

\* C4: after the partition step the filtered list never holds two records
\* with the same number, for the issues and for the discussions.
NoDuplicateNumbers(filtered) ==
    \A i, j \in 1..Len(filtered) : i # j => filtered[i].number # filtered[j].number

C4_DedupIsTotal ==
    /\ IssuesPartitioned => NoDuplicateNumbers(raw_issues)
    /\ DiscussionsPartitioned => NoDuplicateNumbers(raw_discussions)

\* The source returned the same number twice, both records created in the
\* period, and one record is left
C4_Witness ==
    /\ pc = "done"
    /\ Len(created_issues) = 2
    /\ created_issues[1].number = created_issues[2].number
    /\ Len(raw_issues) = 1

\* C5: every issue or discussion returned by the source whose timestamps parse
\* and which is created or updated in the period has a record with its number
\* in the partitioned list and exactly one analysis record with its number.
Represented(src, filtered, analysis) ==
    \A i \in 1..Len(src) :
        (ParsableRecord(src[i]) /\ (CreatedInPeriod(src[i]) \/ UpdatedInPeriod(src[i])))
        => /\ src[i].number \in NumbersOf(filtered)
           /\ CountNumber(analysis, src[i].number) = 1

C5_NoRecordDropped ==
    pc = "done" =>
        /\ Represented(src_issues, raw_issues, issues_analysis)
        /\ Represented(src_discussions, raw_discussions, discussions_analysis)

\* An issue updated in the period and a discussion created in the period are
\* both analysed
C5_Witness ==
    /\ pc = "done"
    /\ Len(src_issues) = 1 /\ UpdatedInPeriod(src_issues[1])
    /\ Len(issues_analysis) = 1 /\ issues_analysis[1].number = src_issues[1].number
    /\ Len(src_discussions) = 1 /\ CreatedInPeriod(src_discussions[1])
    /\ Len(discussions_analysis) = 1
    /\ discussions_analysis[1].number = src_discussions[1].number

\* C6: every PR returned by the source whose created_at falls in the window
\* yields exactly one PRAnalysis with its number.
C6_EveryPRAnalysedOnce ==
    pc = "done" =>
        \A i \in 1..Len(src_prs) :
            FallsInWindow(src_prs[i].created_at)
            => CountNumber(prs_analysis, src_prs[i].number) = 1

\* C7: a record with parsable timestamps is in the created bucket iff its
\* created_at falls in the window (end excluded for day and week, included
\* for today).
CreatedBucketExact(src, created) ==
    \A i \in 1..Len(src) :
        ParsableRecord(src[i]) => (InList(src[i], created) <=> CreatedInPeriod(src[i]))

C7_CreatedBucket ==
    /\ IssuesPartitioned => CreatedBucketExact(src_issues, created_issues)
    /\ DiscussionsPartitioned => CreatedBucketExact(src_discussions, created_discussions)

\* In a "today" run an issue created exactly at period_end is in the created
\* bucket
C7_Witness ==
    /\ IssuesPartitioned
    /\ period = "today"
    /\ \E i \in 1..Len(src_issues) :
          /\ src_issues[i].created_at = <<"Z", period_end>>
          /\ InList(src_issues[i], created_issues)

\* C8 as claimed: for every record, created_at and updated_at present or
\* absent, the record is in the updated bucket iff it is not created in the
\* period, updated_at falls in the window and updated_at differs from
\* created_at; no record is in both buckets.
UpdatedBucketExact(r, updated) == InList(r, updated) <=> UpdatedInPeriod(r)

C8_UpdatedBucketEveryRecord ==
    /\ IssuesPartitioned =>
          \A i \in 1..Len(src_issues) :
              /\ UpdatedBucketExact(src_issues[i], updated_issues)
              /\ ~(InList(src_issues[i], created_issues) /\ InList(src_issues[i], updated_issues))
    /\ DiscussionsPartitioned =>
          \A i \in 1..Len(src_discussions) :
              /\ UpdatedBucketExact(src_discussions[i], updated_discussions)
              /\ ~(InList(src_discussions[i], created_discussions)
                   /\ InList(src_discussions[i], updated_discussions))

\* C8 as amended: for every record whose created_at is present and parses into
\* an offset-aware instant,
\* the record is in the updated bucket iff it is not created in the period,
\* updated_at falls in the window and updated_at differs from created_at; a
\* record without a usable created_at is in no bucket; no record is in both
\* buckets.
UpdatedBucketAmended(src, created, updated) ==
    \A i \in 1..Len(src) :
        /\ IsInstant(src[i].created_at) => UpdatedBucketExact(src[i], updated)
        /\ ~IsInstant(src[i].created_at) => ~InList(src[i], updated) /\ ~InList(src[i], created)
        /\ ~(InList(src[i], created) /\ InList(src[i], updated))

C8_UpdatedBucket ==
    /\ IssuesPartitioned => UpdatedBucketAmended(src_issues, created_issues, updated_issues)
    /\ DiscussionsPartitioned =>
          UpdatedBucketAmended(src_discussions, created_discussions, updated_discussions)

\* An issue created before the window and updated in it is in the updated
\* bucket, next to an issue whose created_at equals its updated_at in no bucket
C8_Witness ==
    /\ IssuesPartitioned
    /\ Len(src_issues) = 2
    /\ UpdatedInPeriod(src_issues[1]) /\ InList(src_issues[1], updated_issues)
    /\ src_issues[2].created_at = src_issues[2].updated_at
    /\ FallsInWindow(src_issues[2].updated_at) = FALSE
    /\ IsInstant(src_issues[2].created_at)
    /\ ~InList(src_issues[2], updated_issues)

\* C9: the filtered list is the created bucket followed by the updated bucket,
\* each in source order, with only the first record of each number kept; a
\* number present in both buckets is reported as created.
RECURSIVE FirstOccurrences(_, _)
FirstOccurrences(merged, i) ==
    IF i > Len(merged) THEN <<>>
    ELSE IF \A j \in 1..(i - 1) : merged[j].number # merged[i].number
         THEN <<merged[i]>> \o FirstOccurrences(merged, i + 1)
         ELSE FirstOccurrences(merged, i + 1)

MergeOrder(src, created, updated, filtered) ==
    /\ created = SelectSeq(src, LAMBDA r : InList(r, created))
    /\ updated = SelectSeq(src, LAMBDA r : InList(r, updated))
    /\ [k \in 1..Len(filtered) |-> Untag(filtered[k])] = FirstOccurrences(created \o updated, 1)
    /\ \A k \in 1..Len(filtered) :
          filtered[k].number \in NumbersOf(created) => filtered[k]["_created_in_period"]

C9_MergeOrder ==
    /\ IssuesPartitioned => MergeOrder(src_issues, created_issues, updated_issues, raw_issues)
    /\ DiscussionsPartitioned =>
          MergeOrder(src_discussions, created_discussions, updated_discussions, raw_discussions)

\* The source lists an updated issue before a created issue of the same
\* number: the created one alone is reported
C9_Witness ==
    /\ IssuesPartitioned
    /\ Len(src_issues) = 2
    /\ InList(src_issues[1], updated_issues)
    /\ InList(src_issues[2], created_issues)
    /\ src_issues[1].number = src_issues[2].number
    /\ Len(raw_issues) = 1
    /\ Untag(raw_issues[1]) = src_issues[2]

\* C10: every record of the filtered list carries _created_in_period, true iff
\* the record is a member of the created bucket and false iff it is a member of
\* the updated bucket, and the analysis record built from it has
\* created_in_period equal to that tag.
Tagged(created, updated, filtered) ==
    \A k \in 1..Len(filtered) :
        /\ "_created_in_period" \in DOMAIN filtered[k]
        /\ filtered[k]["_created_in_period"] <=> InList(Untag(filtered[k]), created)
        /\ ~filtered[k]["_created_in_period"] <=> InList(Untag(filtered[k]), updated)

FlagFollowsTag(filtered, analysis) ==
    /\ Len(analysis) = Len(filtered)
    /\ \A k \in 1..Len(filtered) :
          /\ analysis[k].number = filtered[k].number
          /\ analysis[k].created_in_period = filtered[k]["_created_in_period"]

C10_TagIsCreatedMembership ==
    /\ IssuesPartitioned => Tagged(created_issues, updated_issues, raw_issues)
    /\ DiscussionsPartitioned =>
          Tagged(created_discussions, updated_discussions, raw_discussions)
    /\ pc = "done" =>
          /\ FlagFollowsTag(raw_issues, issues_analysis)
          /\ FlagFollowsTag(raw_discussions, discussions_analysis)

\* A created issue and an updated issue are analysed with flags true and false
C10_Witness ==
    /\ pc = "done"
    /\ Len(issues_analysis) = 2
    /\ issues_analysis[1].created_in_period = TRUE
    /\ issues_analysis[2].created_in_period = FALSE
    /\ InList(Untag(raw_issues[2]), updated_issues)

\* A timestamp that is set and cannot be parsed, or that parses and cannot be
\* compared with the window bounds
Unusable(text) == text[1] \in {"bad", "naive"}

BadRecord(r) ==
    Unusable(Get(r, "created_at", NoneTs)) \/ Unusable(Get(r, "updated_at", NoneTs))

WithoutBad(src) == SelectSeq(src, LAMBDA r : ~BadRecord(r))

\* C11: a record whose created_at or updated_at cannot be parsed or compared
\* with the window is in neither bucket and not in the filtered list, and the
\* other records are partitioned as if the bad record were not in the input;
\* the same holds of the PR window filter.
BadRecordsLeftOut(src, created, updated, filtered) ==
    /\ \A i \in 1..Len(src) :
          BadRecord(src[i]) =>
              /\ ~InList(src[i], created)
              /\ ~InList(src[i], updated)
              /\ \A k \in 1..Len(filtered) : Untag(filtered[k]) # src[i]
    /\ created = BucketList(WithoutBad(src), "created", period, period_start, period_end)
    /\ updated = BucketList(WithoutBad(src), "updated", period, period_start, period_end)
    /\ filtered = MergeAndDedup(created, updated)

PullRequestsFiltered ==
    pc \in {"list_discussions", "partition_discussions", "get_details", "score_prs",
            "analyze", "done"}

C11_BadRecordsLeftOut ==
    /\ IssuesPartitioned =>
          BadRecordsLeftOut(src_issues, created_issues, updated_issues, raw_issues)
    /\ (DiscussionsPartitioned /\ src_discussions # <<>>) =>
          BadRecordsLeftOut(src_discussions, created_discussions, updated_discussions,
                            raw_discussions)
    /\ PullRequestsFiltered =>
          /\ \A i \in 1..Len(src_prs) : BadRecord(src_prs[i]) => ~InList(src_prs[i], raw_prs)
          /\ raw_prs = SelectSeq(WithoutBad(src_prs),
                                 LAMBDA pr : PRInPeriod(pr, period, period_start, period_end))

\* An issue created in the window whose updated_at does not parse is left
\* out, and the issue listed after it is in the created bucket; the run goes on
C11_Witness ==
    /\ pc = "done"
    /\ Len(src_issues) = 2
    /\ FallsInWindow(src_issues[1].created_at)
    /\ src_issues[1].updated_at = Bad
    /\ created_issues = <<src_issues[2]>>
    /\ Len(raw_issues) = 1
    /\ Len(issues_analysis) = 1

\* The partition step applied to a list that is already partitioned
Repartition(list) ==
    MergeAndDedup(BucketList(list, "created", period, period_start, period_end),
                  BucketList(list, "updated", period, period_start, period_end))

\* C12: the partition step applied to its own output, with the same window
\* and period kind, yields the same records in the same order with the same
\* _created_in_period tags.
C12_PartitionIdempotent ==
    /\ IssuesPartitioned => Repartition(raw_issues) = raw_issues
    /\ (DiscussionsPartitioned /\ src_discussions # <<>>) =>
          Repartition(raw_discussions) = raw_discussions

\* A created and an updated issue, in this order, stay as they are
C12_Witness ==
    /\ IssuesPartitioned
    /\ Len(raw_issues) = 2
    /\ raw_issues[1]["_created_in_period"] = TRUE
    /\ raw_issues[2]["_created_in_period"] = FALSE
    /\ Repartition(raw_issues) = raw_issues

----------------------------------------------------------------------------
(* Properties of the classifiers and analyze functions, checked under      *)
(* AnalyzerSpec                                                            *)

\* The lowered text and label text of the arguments of a classifier
ArgText == Lower(fn_in[1] \o "\n" \o fn_in[2])
ArgLabels == Lower(Join(fn_in[3], " "))

BugSignal ==
    \/ Contains(ArgLabels, "bug") \/ Contains(ArgText, "bug")
    \/ Contains(ArgText, "error") \/ Contains(ArgText, "fix")

FeatureSignal ==
    \/ Contains(ArgLabels, "feature") \/ Contains(ArgLabels, "enhancement")
    \/ Contains(ArgText, "feat") \/ Contains(ArgText, "request")

QuestionSignal ==
    \/ Contains(ArgLabels, "question") \/ Contains(ArgLabels, "help")
    \/ Contains(ArgText, "how to")

\* C19: _classify_issue_category returns bug when a bug signal is present,
\* otherwise feature request when a feature signal is present, otherwise
\* question when a question signal is present, otherwise other; the tests are
\* substring tests on the lowered text and label text.
C19_IssueCategoryCascade ==
    Applied("_classify_issue_category") =>
        fn_out[1] = IF BugSignal THEN "bug"
                    ELSE IF FeatureSignal THEN "feature request"
                    ELSE IF QuestionSignal THEN "question"
                    ELSE "other"

\* A title with "prefix" (which contains fix), a body with "Request" and a
\* question label: the bug tier wins
C19_Witness ==
    /\ Applied("_classify_issue_category")
    /\ fn_in = <<"prefix", "Request", <<"question">> >>
    /\ fn_out = <<"bug">>

PRFeatSignal ==
    Contains(ArgText, "feat") \/ Contains(ArgText, "feature") \/ Contains(ArgLabels, "enhancement")

PRFixSignal == Contains(ArgText, "fix") \/ Contains(ArgLabels, "bug")

PROptSignal ==
    Contains(ArgText, "refactor") \/ Contains(ArgText, "opt") \/ Contains(ArgText, "optimization")

PRTestSignal == Contains(ArgLabels, "test") \/ Contains(ArgText, "test")

PRDocsSignal == Contains(ArgLabels, "doc") \/ Contains(ArgText, "docs")

\* C20: _detect_pr_type returns the first of feat, fix, opt, test, docs whose
\* signal is present in the title, the body or the labels, and other when
\* none is.
C20_PRTypeCascade ==
    Applied("_detect_pr_type") =>
        fn_out[1] = IF PRFeatSignal THEN "feat"
                    ELSE IF PRFixSignal THEN "fix"
                    ELSE IF PROptSignal THEN "opt"
                    ELSE IF PRTestSignal THEN "test"
                    ELSE IF PRDocsSignal THEN "docs"
                    ELSE "other"

\* A body with "adopt" (which contains opt) and "tests" and "docs", and a
\* test label: opt wins
C20_Witness ==
    /\ Applied("_detect_pr_type")
    /\ fn_in = <<"", "adopt tests docs", <<"test">> >>
    /\ fn_out = <<"opt">>

\* C13 as claimed: for every scorer result, a dimension score that is
\* missing, null or not a number is taken as 0, and analyze_pull_requests
\* returns a PRAnalysis for the PR without raising.
ScoreOrZero(qwen_data, key) ==
    IF key \notin DOMAIN qwen_data THEN 0
    ELSE IF qwen_data[key] \in {NullInt, TextScore} THEN 0
    ELSE qwen_data[key]

C13_UntrustedScoresDefaultToZero ==
    Applied("analyze_pull_requests") =>
        /\ fn_out[1] = "returned"
        /\ Len(fn_out[2]) = Len(fn_in[1])
        /\ \A i \in 1..Len(fn_in[1]) :
              /\ fn_out[2][i].number = fn_in[1][i].number
              /\ \A k \in 1..6 :
                    fn_out[2][i].scores[k] = ScoreOrZero(fn_in[2][fn_in[1][i].number], ScoreKeys[k])

----------------------------------------------------------------------------
(* Properties of the scorer client, checked under ClientSpec *)

\* The last call has returned or raised
CallOver == cpc = "idle" /\ calls > 0

\* The recorded timestamps in the 60 seconds that end at the i-th one
InWindowBefore(i) ==
    {j \in 1..Len(recorded) :
        recorded[i] - ThrottleWindow < recorded[j] /\ recorded[j] <= recorded[i] /\ j <= i}

\* C14: with max_requests_per_minute = N >= 1, the (k+N)-th timestamp is
\* recorded at least 60 seconds after the k-th, so that no window of 60
\* seconds holds more than N of them; a _throttle call sleeps at most once
\* and returns.
C14_RateLimit ==
    max_requests_per_minute >= 1 =>
        /\ \A k \in 1..Len(recorded) :
              k + max_requests_per_minute <= Len(recorded) =>
                  recorded[k + max_requests_per_minute] - recorded[k] >= ThrottleWindow
        /\ \A i \in 1..Len(recorded) :
              Cardinality(InWindowBefore(i)) <= max_requests_per_minute
        /\ sleeps <= 1
        /\ ~result.raised

\* With N = 1 a second call 30 seconds after the first sleeps once and is
\* recorded 61 seconds after it
C14_Witness ==
    /\ max_requests_per_minute = 1
    /\ CallOver
    /\ sleeps = 1
    /\ Len(recorded) = 2
    /\ recorded[2] - recorded[1] = ThrottleWindow + 1

\* C15 as claimed: for every max_requests_per_minute, every state of the
\* timestamp log and every outcome of the network call, the three methods
\* return a mapping and never raise; the failure placeholder of analyze_pr
\* has six scores 0 and a comment that carries the reason.
IsFailurePlaceholder(v) ==
    /\ \A i \in 1..6 : v[ScoreKeys[i]] = 0
    /\ \E f \in Failures : v.comment = FailurePrefix \o ": " \o f

C15_NeverRaises ==
    CallOver =>
        /\ ~result.raised
        /\ (api_key /\ method = "analyze_pr") =>
              \/ result.value = GoodContent("analyze_pr")
              \/ IsFailurePlaceholder(result.value)

\* C16 as claimed: every network request is preceded, in the same call, by
\* exactly one _throttle that records one timestamp, and a call without
\* credentials makes no request, records no timestamp and returns the
\* zero or empty placeholder.
ZeroOrEmpty(m, v) ==
    IF m = "analyze_pr" THEN \A i \in 1..6 : v[ScoreKeys[i]] = 0
    ELSE v.summary = ""

C16_RequestsMatchTimestamps ==
    /\ call_requests <= 1 /\ call_records <= 1
    /\ call_requests = 1 => call_records = 1
    /\ (CallOver /\ ~result.raised /\ api_key) => (call_requests = 1 /\ call_records = 1)
    /\ ~api_key => (call_requests = 0 /\ call_records = 0 /\ recorded = <<>>)
    /\ (CallOver /\ ~api_key) => (~result.raised /\ ZeroOrEmpty(method, result.value))

\* The call of the summarizer was made and returned
CallReturned == fn_in[2].present /\ fn_in[2].api_key /\ ~fn_in[3][1].raised

\* The text of the summarizer's answer: its summary, else its comment
ExternalText ==
    LET v == fn_in[3][1].value
    IN  IF "summary" \in DOMAIN v /\ v.summary # "" THEN v.summary
        ELSE IF "comment" \in DOMAIN v THEN v.comment
        ELSE ""

\* The text is a failure placeholder
IsPlaceholderText(text) ==
    Len(text) >= Len(FailurePrefix) /\ SubSeq(text, 1, Len(FailurePrefix)) = FailurePrefix

HeuristicSummary == _summarize_issue(fn_in[1][1].title, fn_in[1][1].body, DefaultMaxLen)

\* C17: the summary of the IssueAnalysis is the summarizer's text, cut to 200
\* characters, when the call returned a text that is not empty, not blank and
\* no failure placeholder; in every other case (no client, no api key, an
\* exception, an empty or placeholder answer) it is the heuristic summary.
C17_IssueSummaryBestEffort ==
    Applied("analyze_issues") =>
        /\ Len(fn_out[1]) = 1
        /\ fn_out[1][1].summary =
              IF /\ CallReturned
                 /\ ExternalText # "" /\ ~IsBlank(ExternalText)
                 /\ ~IsPlaceholderText(ExternalText)
              THEN SubSeq(ExternalText, 1, IF Len(ExternalText) < 200 THEN Len(ExternalText) ELSE 200)
              ELSE HeuristicSummary

\* The summarizer answers with a text that starts as the failure placeholder
\* does, and the heuristic summary is kept
C17_Witness ==
    /\ Applied("analyze_issues")
    /\ CallReturned
    /\ IsPlaceholderText(ExternalText)
    /\ fn_out[1][1].summary = HeuristicSummary
    /\ fn_out[1][1].summary # ""

\* C18 as claimed: the ai_summary of the DiscussionAnalysis is the
\* summarizer's text only if that text is not empty and no failure
\* placeholder; when the call fails, ai_summary is empty.
C18_DiscussionAiSummaryBestEffort ==
    Applied("analyze_discussions") =>
        /\ Len(fn_out[1]) = 1
        /\ fn_out[1][1].ai_summary =
              IF CallReturned /\ ExternalText # "" /\ ~IsPlaceholderText(ExternalText)
              THEN SubSeq(ExternalText, 1, IF Len(ExternalText) < 300 THEN Len(ExternalText) ELSE 300)
              ELSE ""

\* C21: for every title, body and max_len >= 0, the text returned by
\* _summarize_issue has at most max_len + 3 characters, whether it is made
\* of the combined text or of the title alone.
C21_SummaryLengthBounded ==
    Applied("_summarize_issue") => Len(fn_out[1]) <= fn_in[3] + 3

\* The title is longer than max_len, is returned alone, and the result has
\* exactly max_len + 3 characters
C21_Witness ==
    /\ Applied("_summarize_issue")
    /\ fn_in[1] = LongText /\ fn_in[2] = "ok" /\ fn_in[3] = 5
    /\ Len(fn_out[1]) = 8

\* The collapsed text is shorter than 20 characters or still holds a marker
SummaryFallsBack ==
    LET text == CombinedText(fn_in[1], fn_in[2])
    IN  \/ Len(text) < 20
        \/ Contains(Lower(text), "check ahead")
        \/ Contains(Lower(text), "searched the issues")

\* The text cut to max_len characters, with an ellipsis iff it was cut
CutTo(text, max_len) ==
    IF Len(text) > max_len THEN SubSeq(text, 1, max_len) \o "..." ELSE text

\* C22: when the collapsed title-plus-cleaned-body text is shorter than 20
\* characters or still holds a boilerplate marker, _summarize_issue returns
\* the title alone, cut to max_len with an ellipsis if it is longer (the
\* empty text for an empty title and body); otherwise it returns the
\* combined text cut to max_len, with an ellipsis iff it was cut.
C22_SummaryFallback ==
    Applied("_summarize_issue") =>
        /\ fn_out[1] = IF SummaryFallsBack
                       THEN CutTo(fn_in[1], fn_in[3])
                       ELSE CutTo(CombinedText(fn_in[1], fn_in[2]), fn_in[3])
        /\ (fn_in[1] = "" /\ fn_in[2] = "") => fn_out[1] = ""

\* A title of 21 characters that collapses to 20 is not a fallback: the
\* collapsed text is returned, not the title
C22_Witness ==
    /\ Applied("_summarize_issue")
    /\ fn_in[1] = "Login page is  broken" /\ fn_in[2] = "" /\ fn_in[3] = DefaultMaxLen
    /\ ~SummaryFallsBack
    /\ fn_out[1] = "Login page is broken"

\* C23 as claimed: _clean_references rewrites each shorthand to its listed
\* token: owner/repo#123 to owner-repo-123, #123 to Item-123, issue #123 to
\* Issue-123, pr #123 to PR-123, pull request #123 to PR-123, discussion
\* #123 to Discussion-123, and "Fixes apache#123 and #45" to "Fixes
\* apache-123 and Item-45".
C23_ReferencesRewritten ==
    Applied("_clean_references") =>
        /\ (fn_in[1] = "owner/repo#123" => fn_out[1] = "owner-repo-123")
        /\ (fn_in[1] = "#45" => fn_out[1] = "Item-45")
        /\ (fn_in[1] = "issue #123" => fn_out[1] = "Issue-123")
        /\ (fn_in[1] = "PR #7" => fn_out[1] = "PR-7")
        /\ (fn_in[1] = "pull request #8" => fn_out[1] = "PR-8")
        /\ (fn_in[1] = "discussion\t#10" => fn_out[1] = "Discussion-10")
        /\ (fn_in[1] = "Fixes apache#123 and #45" => fn_out[1] = "Fixes apache-123 and Item-45")

\* C27: the text returned by _clean_references holds no "#" followed by a
\* digit, and cleaning it again returns it unchanged.
C27_NoReferenceLeft ==
    Applied("_clean_references") =>
        /\ \A i \in 1..Len(fn_out[1]) : ~RefAt(fn_out[1], i)
        /\ _clean_references(fn_out[1]) = fn_out[1]

\* A text with a qualified and a bare reference is rewritten
C27_Witness ==
    /\ Applied("_clean_references")
    /\ fn_in[1] = "a#1#2 and #45"
    /\ fn_out[1] = "a-1Item-2 and Item-45"

\* Every record of the list carries a boolean created_in_period that tells
\* whether its created_at falls in the period window
FlagTellsCreation(analysis) ==
    \A k \in 1..Len(analysis) :
        /\ "created_in_period" \in DOMAIN analysis[k]
        /\ analysis[k].created_in_period \in BOOLEAN
        /\ analysis[k].created_in_period <=> FallsInWindow(analysis[k].created_at)

\* C24 as claimed: every IssueAnalysis, PRAnalysis and DiscussionAnalysis
\* carries a boolean created_in_period flag that tells whether its source
\* record was created inside the period window.
C24_EveryAnalysisFlagged ==
    pc = "done" =>
        /\ FlagTellsCreation(issues_analysis)
        /\ FlagTellsCreation(discussions_analysis)
        /\ FlagTellsCreation(prs_analysis)

\* The size bucket of a number of changed lines
SizeBucket(lines) ==
    IF lines < 50 THEN <<"small", 5>> ELSE IF lines <= 200 THEN <<"medium", 7>> ELSE <<"large", 9>>

\* The field of the PR detail, counted as 0 when absent, null or zero
CountOrZero(pr, key) ==
    IF key \in DOMAIN pr /\ pr[key] # NullInt THEN pr[key] ELSE 0

\* The record agrees with the scoring functions on the PR detail pr
ConsistentPRAnalysis(a, pr) ==
    /\ a.type_score = CASE a.pr_type = "feat" -> 10
                         [] a.pr_type = "opt" -> 8
                         [] a.pr_type = "fix" -> 6
                         [] a.pr_type = "test" -> 4
                         [] a.pr_type = "docs" -> 5
                         [] OTHER -> 5
    /\ a.priority = CASE a.pr_type = "feat" -> "P1"
                       [] a.pr_type = "opt" -> "P2"
                       [] a.pr_type \in {"fix", "docs"} -> "P3"
                       [] a.pr_type = "test" -> "P4"
                       [] OTHER -> "P3"
    /\ <<a.size_category, a.size_score>> = SizeBucket(CountOrZero(pr, "additions") + CountOrZero(pr, "deletions"))
    /\ a.total_score = 5 * a.type_score + 5 * a.size_score
                       + 15 * (a.scores[1] + a.scores[2] + a.scores[3] + a.scores[4] + a.scores[5] + a.scores[6])
    /\ a.rating = IF a.total_score > 800 THEN "excellent"
                  ELSE IF a.total_score > 600 THEN "good" ELSE "fair"

\* C25: every PRAnalysis that analyze_pull_requests returns agrees with the
\* scoring functions: type_score and priority are the lookups of its pr_type,
\* its size is the bucket of additions + deletions (absent, null and zero
\* counted as 0), total_score is the composite of its own eight scores and
\* rating is the rating of that total; 300 additions, 10 deletions, title
\* "feat: add caching layer" and six scores of 7 give feat, 10, large, 9, P1,
\* 72.5 and good.
C25_PRAnalysisConsistent ==
    (Applied("analyze_pull_requests") /\ fn_out[1] = "returned") =>
        /\ Len(fn_out[2]) = Len(fn_in[1])
        /\ \A i \in 1..Len(fn_out[2]) : ConsistentPRAnalysis(fn_out[2][i], fn_in[1][i])
        /\ (/\ fn_in[1][1] = PRDetail("feat: add caching layer", 300, 10)
            /\ 1 \in DOMAIN fn_in[2]
            /\ \A k \in 1..6 : Get(fn_in[2][1], ScoreKeys[k], 0) = 7)
           => /\ fn_out[2][1].pr_type = "feat" /\ fn_out[2][1].type_score = 10
              /\ fn_out[2][1].size_category = "large" /\ fn_out[2][1].size_score = 9
              /\ fn_out[2][1].priority = "P1"
              /\ fn_out[2][1].total_score = 725 /\ fn_out[2][1].rating = "good"

\* The scenario of the specification is analysed
C25_Witness ==
    /\ Applied("analyze_pull_requests") /\ fn_out[1] = "returned"
    /\ fn_in[1][1] = PRDetail("feat: add caching layer", 300, 10)
    /\ fn_out[2][1].scores = <<7, 7, 7, 7, 7, 7>>
    /\ fn_out[2][1].total_score = 725

\* The entries of the three sections of the file details
ShownEntries(details) ==
    {details.added[i] : i \in 1..Len(details.added)}
        \cup {details.modified[i] : i \in 1..Len(details.modified)}
        \cup {details.removed[i] : i \in 1..Len(details.removed)}

\* Every entry of the section is one of the first 50 files, with the status
\* of the section, and no file has two entries in it
SectionOfStatus(section, files, shown) ==
    /\ \A i \in 1..Len(section) :
          /\ section[i][2] = shown
          /\ \E k \in 1..Len(files) :
                /\ k <= 50
                /\ files[k].filename = section[i][1]
                /\ shown = (IF files[k].status \in {"added", "removed"} THEN files[k].status ELSE "modified")
    /\ \A i, j \in 1..Len(section) : section[i][1] = section[j][1] => i = j

\* C26 as claimed: the file details of build_pr_context consider at most
\* the first 50 files, list a file only in the section of its status, show at
\* most 20 added, 30 modified and 10 removed entries, and report nothing that
\* depends on a file after the first 50: the context of the whole list is
\* that of its first 50 files.
C26_FileListingCapped ==
    Applied("build_pr_context") =>
        LET files == fn_in[1].files_list
            details == fn_out[1].files
        IN  /\ SectionOfStatus(details.added, files, "added")
            /\ SectionOfStatus(details.modified, files, "modified")
            /\ SectionOfStatus(details.removed, files, "removed")
            /\ Len(details.added) <= 20
            /\ Len(details.modified) <= 30
            /\ Len(details.removed) <= 10
            /\ details = build_pr_context([fn_in[1] EXCEPT !.files_list = SubSeq(files, 1, IF Len(files) < 50 THEN Len(files) ELSE 50)]).files

\* C28: when the six dimension scores of a PR are all 0 (no result for the
\* PR, a scorer without credentials, a failed call), its total_score lies
\* between 4.5 and 9.5 and its rating is fair, whatever its type and size.
C28_DegradedScoreBounded ==
    (Applied("analyze_pull_requests") /\ fn_out[1] = "returned") =>
        \A i \in 1..Len(fn_out[2]) :
            fn_out[2][i].scores = <<0, 0, 0, 0, 0, 0>> =>
                /\ 45 <= fn_out[2][i].total_score
                /\ fn_out[2][i].total_score <= 95
                /\ fn_out[2][i].rating = "fair"

\* A test PR of small size scored by a client without credentials reaches
\* the lower end, 4.5
C28_Witness ==
    /\ Applied("analyze_pull_requests") /\ fn_out[1] = "returned"
    /\ fn_in[2] = [n \in {1} |-> NoKeyPlaceholder("analyze_pr")]
    /\ fn_out[2][1].pr_type = "test" /\ fn_out[2][1].size_category = "small"
    /\ fn_out[2][1].scores = <<0, 0, 0, 0, 0, 0>>
    /\ fn_out[2][1].total_score = 45

\* A feat PR of large size whose call failed reaches the upper end, 9.5
DegradedUpperEnd ==
    /\ Applied("analyze_pull_requests") /\ fn_out[1] = "returned"
    /\ fn_in[2] = [n \in {1} |-> FailurePlaceholder("analyze_pr", "timeout")]
    /\ fn_out[2][1].total_score = 95

\* The record was created before the window and updated inside it, and no
\* other record of the list has its number
UpdatedOnly(list, k, created, updated) ==
    /\ IsInstant(list[k][created]) /\ list[k][created][2] < period_start
    /\ FallsInWindow(list[k][updated])
    /\ list[k][updated] # list[k][created]
    /\ list[k].number # 0
    /\ \A j \in 1..Len(list) : list[j].number = list[k].number => j = k

\* The number is reported as updated: listed, in the updated bucket, and
\* analysed with created_in_period false
ReportedAsUpdated(n, returned, updated, analysis) ==
    /\ n \in NumbersOf(returned)
    /\ n \in NumbersOf(updated)
    /\ \E i \in 1..Len(analysis) : analysis[i].number = n /\ ~analysis[i].created_in_period

\* An issue created before the window and updated inside it is reported as
\* updated
UpdatedIssuesReported ==
    pc = "done" =>
        \A k \in 1..Len(src_issues) :
            UpdatedOnly(src_issues, k, "created_at", "updated_at") =>
                ReportedAsUpdated(src_issues[k].number, src_issues, updated_issues, issues_analysis)

\* C30 as claimed: a discussion created before period_start whose updated_at
\* falls inside the window and differs from created_at is returned by
\* list_discussions, is placed in the updated bucket and is analysed with
\* created_in_period false, as an issue with the same timestamps is.
C30_UpdatedDiscussionsReported ==
    pc = "done" =>
        \A k \in 1..Len(disc_nodes) :
            UpdatedOnly(disc_nodes, k, "createdAt", "updatedAt") =>
                ReportedAsUpdated(disc_nodes[k].number, src_discussions, updated_discussions, discussions_analysis)

\* C29 as claimed: list_issues returns, in the order of the source, the
\* first min(max_count, K) records that are no pull requests, K being the
\* number of such records over all pages of the source.
C29_ListIssuesComplete ==
    lpc = "done" => listed = FirstN(WithoutPullRequests(source_items), max_count)

====
